-------------------------- MODULE SwiftReads_proofs ---------------------------
(***************************************************************************)
(* Proofs about SwiftReads: what a reader gets while others write.         *)
(***************************************************************************)
EXTENDS SwiftReads, SwiftAcked_proofs

-----------------------------------------------------------------------------
(* The writers do what they do in SwiftPlus. *)

LEMMA ReadSteps ==
    ASSUME [ReadNext]_readVars
    PROVE  [Next]_vars
<1>1. CASE UNCHANGED readVars
  BY <1>1 DEF readVars, vars
<1>2. ASSUME NEW r \in Readers, ReadStep(r)
      PROVE  UNCHANGED vars
  BY <1>2 DEF ReadStep, GetContentRow, ReaderRow, URLForRow, SwiftOpen,
              SwiftStream, ReadDone
<1>3. StoreStep \/ ReadersCrash => Next
  BY DEF StoreStep, ReadersCrash, Next
<1> QED BY <1>1, <1>2, <1>3 DEF ReadNext

(* Readers only read: a behaviour of SwiftReads is one of SwiftPlus, so all *)
(* that is proved of the driver's calls holds whatever readers do.          *)
THEOREM ReadersOnlyRead == ReadSpec => Spec
<1>1. ReadInit => Init
  BY DEF ReadInit
<1>2. [ReadNext]_readVars => [Next]_vars
  BY ReadSteps
<1> QED BY <1>1, <1>2, PTL DEF ReadSpec, Spec

(* Whatever readers do, the store is as StoreInv says. *)
THEOREM ReadersDoNoHarm == ReadSpec => []StoreInv
<1>1. Spec => []StoreInv
  BY StoreInvariant
<1> QED BY <1>1, ReadersOnlyRead, PTL

-----------------------------------------------------------------------------
(* What a reader has received so far. *)

ReaderRec ==
    [pc : {"idle", "fetch", "url", "stream", "done"},
     op : {"none", "read", "url"}, path : Paths \cup {Root}, off : Nat,
     loc : Nat, parts : Seq(Part),
     res : Seq(Nat) \cup {Absent, Unreadable, Unsupported},
     base : Value]

(* Together with the segments that are still to come, what was received so  *)
(* far is what somebody asked to be stored, from the offset on.             *)
Received(rd, wn) ==
    /\ rd \in ReaderRec
    /\ rd.pc = "stream" =>
         /\ rd.parts # <<>>
         /\ rd.res \in Seq(Nat)
         /\ \E c \in wn : rd.res \o Units(rd.parts) = From(c, rd.off)
    /\ rd.pc = "done" /\ ~IsError(rd.res) =>
         rd.res = <<>> \/ \E c \in wn : rd.res = From(c, rd.off)

ReadInv ==
    /\ reader \in [Readers -> ReaderRec]
    /\ \A r \in Readers : Received(reader[r], written)

LEMMA FromFacts ==
    ASSUME NEW S, NEW s \in Seq(S), NEW k \in Nat
    PROVE  /\ From(s, k) \in Seq(S)
           /\ Len(From(s, k)) = IF k <= Len(s) THEN Len(s) - k ELSE 0
           /\ \A i \in 1..Len(From(s, k)) : From(s, k)[i] = s[i + k]
<1>1. Len(s) \in Nat
  OBVIOUS
<1>2. CASE k < Len(s)
  BY <1>1, <1>2, SubSeqProperties DEF From
<1>3. CASE ~(k < Len(s))
  <2>1. SubSeq(s, k + 1, Len(s)) = <<>>
    BY <1>1, <1>3, SubSeqProperties
  <2> QED BY <1>1, <1>3, <2>1 DEF From
<1> QED BY <1>2, <1>3

LEMMA FromZero ==
    ASSUME NEW S, NEW s \in Seq(S)
    PROVE  From(s, 0) = s
<1>1. /\ From(s, 0) \in Seq(S) /\ Len(From(s, 0)) = Len(s)
      /\ \A i \in 1..Len(s) : From(s, 0)[i] = s[i]
  <2>1. Len(s) \in Nat /\ 0 \in Nat
    OBVIOUS
  <2> QED BY <2>1, FromFacts
<1> HIDE DEF From
<1> QED BY <1>1, SeqEqual

LEMMA FromEmpty ==
    ASSUME NEW k \in Nat
    PROVE  From(<<>>, k) = <<>>
<1>1. Len(<<>>) = 0 /\ 0 < k + 1
  OBVIOUS
<1> QED BY <1>1, SubSeqEmpty DEF From

LEMMA UnitsEmpty == Units(<<>>) = <<>>
<1>1. <<>> \in Seq(Part) /\ Len(<<>>) = 0
  OBVIOUS
<1>2. Units(<<>>) \in Seq(Nat) /\ Len(Units(<<>>)) = 0
  BY <1>1, UnitsIs
<1> QED BY <1>2, EmptySeq

(* The units of the segments from an offset on. *)
LEMMA UnitsFrom ==
    ASSUME NEW ps \in Seq(Part), NEW k \in Nat
    PROVE  Units(From(ps, k)) = From(Units(ps), k)
<1> DEFINE a == From(ps, k)
           u == Units(ps)
           b == From(u, k)
<1>1. /\ a \in Seq(Part) /\ Len(a) = IF k <= Len(ps) THEN Len(ps) - k ELSE 0
      /\ \A i \in 1..Len(a) : a[i] = ps[i + k]
  BY FromFacts
<1>2. u \in Seq(Nat) /\ Len(u) = Len(ps) /\ \A i \in 1..Len(ps) : u[i] = ps[i].unit
  BY UnitsIs
<1>3. /\ b \in Seq(Nat) /\ Len(b) = IF k <= Len(u) THEN Len(u) - k ELSE 0
      /\ \A i \in 1..Len(b) : b[i] = u[i + k]
  <2> HIDE DEF u
  <2> QED BY <1>2, FromFacts
<1>4. /\ Units(a) \in Seq(Nat) /\ Len(Units(a)) = Len(a)
      /\ \A i \in 1..Len(a) : Units(a)[i] = a[i].unit
  <2> HIDE DEF a
  <2> QED BY <1>1, UnitsIs
<1> DEFINE v == Units(a)
<1> HIDE DEF a, b, u, v
<1>5. Len(v) = Len(b)
  BY <1>1, <1>2, <1>3, <1>4 DEF v
<1>6. ASSUME NEW i \in 1..Len(b)
      PROVE  v[i] = b[i]
  <2>1. i \in 1..Len(a) /\ i + k \in 1..Len(ps)
    BY <1>1, <1>2, <1>3
  <2> QED BY <1>1, <1>2, <1>3, <1>4, <2>1 DEF v
<1>7. v = b
  BY <1>3, <1>4, <1>5, <1>6, SeqEqual DEF v
<1> QED BY <1>7 DEF v, a, b, u

(* Swift has sent the first of the segments. *)
LEMMA UnitsTail ==
    ASSUME NEW ps \in Seq(Part), ps # <<>>, NEW res \in Seq(Nat)
    PROVE  (res \o <<Head(ps).unit>>) \o Units(Tail(ps)) = res \o Units(ps)
<1> DEFINE u == Units(ps)
           t == Units(Tail(ps))
           x == Head(ps).unit
<1>1. u \in Seq(Nat) /\ Len(u) = Len(ps) /\ \A i \in 1..Len(ps) : u[i] = ps[i].unit
  BY UnitsIs
<1>2. Tail(ps) \in Seq(Part) /\ Len(Tail(ps)) = Len(ps) - 1 /\ Len(ps) >= 1
      /\ \A i \in 1..(Len(ps) - 1) : Tail(ps)[i] = ps[i + 1]
  OBVIOUS
<1>3. t \in Seq(Nat) /\ Len(t) = Len(ps) - 1
      /\ \A i \in 1..(Len(ps) - 1) : t[i] = ps[i + 1].unit
  BY <1>2, UnitsIs
<1>4. x = u[1] /\ x \in Nat
  BY <1>1, <1>2
<1> HIDE DEF u, t, x
<1>5. \A i \in 1..Len(t) : t[i] = u[i + 1]
  <2> TAKE i \in 1..Len(t)
  <2>1. i \in 1..(Len(ps) - 1) /\ i + 1 \in 1..Len(ps)
    BY <1>2, <1>3
  <2> QED BY <1>1, <1>3, <2>1
<1>6. Len(u) = Len(t) + 1
  BY <1>1, <1>2, <1>3
<1>7. u = <<x>> \o t
  <2>1. <<x>> \in Seq(Nat) /\ Len(<<x>>) = 1 /\ <<x>>[1] = x
    BY <1>4
  <2> DEFINE b == <<x>> \o t
  <2>2. b \in Seq(Nat) /\ Len(b) = 1 + Len(t)
        /\ \A i \in 1..Len(b) : b[i] = IF i <= 1 THEN <<x>>[i] ELSE t[i - 1]
    BY <1>3, <2>1, ConcatProperties
  <2> HIDE DEF b
  <2>3. ASSUME NEW i \in 1..Len(u)
        PROVE  u[i] = b[i]
    <3>1. CASE i = 1
      BY <1>3, <1>4, <1>6, <2>1, <2>2, <3>1
    <3>2. CASE i > 1
      <4>1. i - 1 \in 1..Len(t) /\ i \in 1..Len(b)
        BY <1>3, <1>6, <2>2, <3>2
      <4>2. (i - 1) + 1 = i /\ ~(i <= 1)
        BY <3>2
      <4>3. t[i - 1] = u[i]
        BY <1>5, <4>1, <4>2
      <4> QED BY <2>2, <4>1, <4>2, <4>3
    <3> QED BY <3>1, <3>2
  <2>4. u = b
    BY <1>1, <1>3, <1>6, <2>2, <2>3, SeqEqual
  <2> QED BY <2>4 DEF b
<1>8. (res \o <<x>>) \o t = res \o u
  BY <1>3, <1>4, <1>7, ConcatAssociative
<1> QED BY <1>8 DEF u, t, x

-----------------------------------------------------------------------------
(* The steps of a reader. *)

LEMMA BecomeOK ==
    ASSUME ReadInv, NEW r \in Readers, NEW rd, Become(r, rd),
           Received(rd, written'), written' = written
    PROVE  ReadInv'
  BY DEF ReadInv, Become, Received

LEMMA AnswerOK ==
    ASSUME ReadInv, NEW r \in Readers, NEW rd \in ReaderRec, NEW res,
           res \in Seq(Nat) \cup {Absent, Unreadable, Unsupported},
           ~IsError(res) =>
             res = <<>> \/ \E c \in written : res = From(c, rd.off),
           Answer(r, rd, res), written' = written
    PROVE  ReadInv'
<1> DEFINE k == [rd EXCEPT !.pc = "done", !.loc = NoLoc, !.parts = <<>>,
                           !.res = res]
<1>1. k \in ReaderRec /\ k.pc = "done" /\ k.res = res /\ k.off = rd.off
  <2>1. <<>> \in Seq(Part)
    OBVIOUS
  <2> QED BY <2>1 DEF ReaderRec, NoLoc
<1>2. Become(r, k)
  BY DEF Answer
<1> HIDE DEF k
<1>3. Received(k, written')
  BY <1>1 DEF Received
<1> QED BY <1>2, <1>3, BecomeOK

LEMMA LocateOK ==
    ASSUME ReadInv, NEW r \in Readers, NEW rd \in ReaderRec,
           NEW pc \in {"fetch", "url"}, NEW l \in Nat, Locate(r, rd, pc, l),
           written' = written
    PROVE  ReadInv'
<1> DEFINE k == [rd EXCEPT !.pc = pc, !.loc = l]
<1>1. k \in ReaderRec /\ k.pc = pc
  BY DEF ReaderRec
<1>2. Become(r, k)
  BY DEF Locate
<1> HIDE DEF k
<1>3. Received(k, written')
  BY <1>1 DEF Received
<1> QED BY <1>2, <1>3, BecomeOK

LEMMA DeliverOK ==
    ASSUME ReadInv, NEW r \in Readers, NEW rd \in ReaderRec,
           NEW ps \in Seq(Part), NEW res \in Seq(Nat),
           \/ \E c \in written : res \o Units(ps) = From(c, rd.off)
           \/ ps = <<>> /\ res = <<>>,
           Deliver(r, rd, ps, res), written' = written
    PROVE  ReadInv'
<1>1. CASE ps = <<>>
  <2>1. res \o Units(ps) = res
    <3>1. Units(ps) = <<>>
      BY <1>1, UnitsEmpty
    <3> QED BY <3>1
  <2>2. Answer(r, rd, res)
    BY <1>1 DEF Deliver
  <2> QED BY <2>1, <2>2, AnswerOK
<1>2. CASE ps # <<>>
  <2> DEFINE k == [rd EXCEPT !.pc = "stream", !.parts = ps, !.res = res]
  <2>1. /\ k \in ReaderRec /\ k.pc = "stream" /\ k.parts = ps /\ k.res = res
        /\ k.off = rd.off
    BY DEF ReaderRec
  <2>2. Become(r, k)
    BY <1>2 DEF Deliver
  <2> HIDE DEF k
  <2>3. Received(k, written')
    BY <1>2, <2>1 DEF Received
  <2> QED BY <2>2, <2>3, BecomeOK
<1> QED BY <1>1, <1>2

LEMMA BeginType ==
    ASSUME StoreInv, NEW op \in {"read", "url"}, NEW p \in Files, NEW k \in Nat
    PROVE  Begin(op, p, k) \in ReaderRec /\ Begin(op, p, k).off = k
<1>1. acked[p] \in Value /\ Unknown \in Value
  BY DEF StoreInv, CountersOK, Value
<1>2. p \in Paths /\ <<>> \in Seq(Part)
  BY SwiftPlusAssumption
<1>3. IdleReader \in ReaderRec
  BY <1>1, <1>2 DEF IdleReader, ReaderRec, NoLoc
<1> QED BY <1>1, <1>2, <1>3 DEF Begin, ReaderRec, IdleReader

(* A file's row, as a reader finds it. *)
LEMMA FileRowIs ==
    ASSUME StoreInv, NEW p \in Files, files[p] # NoRow
    PROVE  /\ files[p].loc \in Nat
           /\ files[p].data \in Seq(Nat)
           /\ files[p].data # <<>> => files[p].data \in written
<1>1. p \in Paths
  BY SwiftPlusAssumption
<1>2. files[p] \in FileRow(nextLoc, written)
  BY <1>1, RowForPath DEF RowFor
<1> QED BY <1>2, ContentsSeq DEF FileRow, Row

LEMMA WrittenSeq ==
    ASSUME StoreInv, NEW c \in written
    PROVE  c \in Seq(Nat)
  BY ContentsSeq DEF StoreInv, CountersOK

LEMMA RowStep ==
    ASSUME StoreInv, ReadInv, NEW r \in Readers, NEW p \in Files,
           \/ GetContentRow(r, p)
           \/ \E offset \in Nat : ReaderRow(r, p, offset)
           \/ \E method \in {"GET", "HEAD"} : URLForRow(r, p, method)
    PROVE  ReadInv'
<1>1. written' = written
  BY DEF GetContentRow, ReaderRow, URLForRow, vars
<1>2. ASSUME GetContentRow(r, p) PROVE ReadInv'
  <2> DEFINE rd == Begin("read", p, 0)
             fi == files[p]
  <2>1. rd \in ReaderRec /\ rd.off = 0
    BY BeginType
  <2> HIDE DEF rd
  <2>2. CASE Answer(r, rd, Absent) \/ Answer(r, rd, <<>>)
    <3>1. IsError(Absent) /\ <<>> \in Seq(Nat)
      BY DEF IsError
    <3> QED BY <1>1, <2>1, <2>2, <3>1, AnswerOK
  <2>3. CASE fi # NoRow /\ fi.data # <<>> /\ Answer(r, rd, fi.data)
    <3>1. fi.data \in Seq(Nat) /\ fi.data \in written
      BY <2>3, FileRowIs
    <3>2. From(fi.data, rd.off) = fi.data
      BY <2>1, <3>1, FromZero
    <3> QED BY <1>1, <2>1, <2>3, <3>1, <3>2, AnswerOK
  <2>4. CASE fi # NoRow /\ Locate(r, rd, "fetch", fi.loc)
    <3>1. fi.loc \in Nat
      BY <2>4, FileRowIs
    <3> QED BY <1>1, <2>1, <2>4, <3>1, LocateOK
  <2> QED BY <1>2, <2>2, <2>3, <2>4 DEF GetContentRow, rd
<1>3. ASSUME NEW offset \in Nat, ReaderRow(r, p, offset) PROVE ReadInv'
  <2> DEFINE rd == Begin("read", p, offset)
             fi == files[p]
  <2>1. rd \in ReaderRec /\ rd.off = offset
    BY BeginType
  <2> HIDE DEF rd
  <2>2. CASE Answer(r, rd, Absent) \/ Answer(r, rd, <<>>)
    <3>1. IsError(Absent) /\ <<>> \in Seq(Nat)
      BY DEF IsError
    <3> QED BY <1>1, <2>1, <2>2, <3>1, AnswerOK
  <2>3. CASE fi # NoRow /\ Answer(r, rd, From(fi.data, offset))
    <3>1. fi.data \in Seq(Nat) /\ (fi.data # <<>> => fi.data \in written)
      BY <2>3, FileRowIs
    <3>2. From(fi.data, offset) \in Seq(Nat)
      BY <3>1, FromFacts
    <3>3. fi.data = <<>> => From(fi.data, offset) = <<>>
      BY FromEmpty
    <3> HIDE DEF fi
    <3> QED BY <1>1, <2>1, <2>3, <3>1, <3>2, <3>3, AnswerOK
  <2>4. CASE fi # NoRow /\ Locate(r, rd, "fetch", fi.loc)
    <3>1. fi.loc \in Nat
      BY <2>4, FileRowIs
    <3> QED BY <1>1, <2>1, <2>4, <3>1, LocateOK
  <2> QED BY <1>3, <2>2, <2>3, <2>4 DEF ReaderRow, rd
<1>4. ASSUME NEW method \in {"GET", "HEAD"}, URLForRow(r, p, method)
      PROVE  ReadInv'
  <2> DEFINE rd == Begin("url", p, 0)
             fi == files[p]
  <2>1. rd \in ReaderRec /\ rd.off = 0
    BY BeginType
  <2> HIDE DEF rd
  <2>2. CASE Answer(r, rd, Absent) \/ Answer(r, rd, Unsupported)
    <3>1. IsError(Absent) /\ IsError(Unsupported)
      BY DEF IsError
    <3> QED BY <1>1, <2>1, <2>2, <3>1, AnswerOK
  <2>3. CASE fi # NoRow /\ Locate(r, rd, "url", fi.loc)
    <3>1. fi.loc \in Nat
      BY <2>3, FileRowIs
    <3> QED BY <1>1, <2>1, <2>3, <3>1, LocateOK
  <2> QED BY <1>4, <2>2, <2>3 DEF URLForRow, rd
<1> QED BY <1>2, <1>3, <1>4

(* What an object <location>/content stands for. *)
Content(o) == IF o.slo THEN Units(o.parts) ELSE o.data

(* Swift opens the object o, for a request with a Range. *)
LEMMA OpenGets ==
    ASSUME StoreInv, NEW l, NEW o \in ObjectAt(l, 0), NEW k \in Nat
    PROVE  LET ps == From(o.parts, k)
               res == From(o.data, k)
           IN  /\ ps \in Seq(Part) /\ res \in Seq(Nat)
               /\ res \o Units(ps) = From(Content(o), k)
               /\ o.parts \in Seq(Part) /\ Content(o) \in written
               /\ ~o.slo => ps = <<>>
<1> DEFINE ps == From(o.parts, k)
           res == From(o.data, k)
<1>1. /\ o \in ObjectRec /\ o.num = 0
      /\ ~o.slo => o.data \in written /\ o.parts = <<>>
      /\ o.slo => o.data = <<>> /\ Units(o.parts) \in written
  BY DEF StoreInv, ObjectsOK, ObjectAt
<1>2. o.data \in Seq(Nat) /\ o.parts \in Seq(Part)
  BY <1>1, ContentsSeq DEF ObjectRec
<1>3. ps \in Seq(Part) /\ res \in Seq(Nat)
  BY <1>2, FromFacts
<1>4. CASE o.slo
  <2>1. res = <<>>
    BY <1>1, <1>4, FromEmpty
  <2>2. Units(ps) = From(Units(o.parts), k) /\ Units(ps) \in Seq(Nat)
    BY <1>2, <1>3, UnitsFrom, UnitsIs
  <2> HIDE DEF ps, res
  <2>3. res \o Units(ps) = Units(ps)
    BY <2>1, <2>2
  <2> QED BY <1>1, <1>2, <1>3, <1>4, <2>2, <2>3 DEF Content, ps, res
<1>5. CASE ~o.slo
  <2>1. ps = <<>>
    BY <1>1, <1>5, FromEmpty
  <2>2. Units(ps) = <<>>
    BY <2>1, UnitsEmpty
  <2> HIDE DEF ps
  <2>3. res \o Units(ps) = res
    BY <1>3, <2>2
  <2> QED BY <1>1, <1>2, <1>3, <1>5, <2>1, <2>3 DEF Content, ps
<1> QED BY <1>4, <1>5

LEMMA OpenStep ==
    ASSUME StoreInv, ReadInv, NEW r \in Readers, SwiftOpen(r)
    PROVE  ReadInv'
<1> DEFINE rd == reader[r]
<1>1. written' = written
  BY DEF SwiftOpen, vars
<1>2. rd \in ReaderRec
  BY DEF ReadInv
<1>3. CASE Answer(r, rd, Unreadable)
  <2>1. IsError(Unreadable)
    BY DEF IsError
  <2> QED BY <1>1, <1>2, <1>3, <2>1, AnswerOK
<1>4. ASSUME NEW o \in ObjectAt(rd.loc, 0),
             Deliver(r, rd, From(o.parts, rd.off), From(o.data, rd.off))
      PROVE  ReadInv'
  <2> DEFINE k == rd.off
             ps == From(o.parts, k)
             res == From(o.data, k)
  <2>1. k \in Nat
    BY <1>2 DEF ReaderRec
  <2>2. /\ ps \in Seq(Part) /\ res \in Seq(Nat)
        /\ \E c \in written : res \o Units(ps) = From(c, k)
    BY <2>1, OpenGets
  <2>3. Deliver(r, rd, ps, res)
    BY <1>4
  <2> HIDE DEF ps, res
  <2> QED BY <1>1, <1>2, <2>2, <2>3, DeliverOK
<1> QED BY <1>3, <1>4 DEF SwiftOpen

(* Swift sends the next segment. *)
LEMMA NextPart ==
    ASSUME StoreInv, NEW l, NEW ps \in Seq(Part), ps # <<>>, NEW res \in Seq(Nat),
           PartFound(l, Head(ps)), NEW o \in ObjectAt(l, Head(ps).num)
    PROVE  /\ Tail(ps) \in Seq(Part) /\ res \o o.data \in Seq(Nat)
           /\ (res \o o.data) \o Units(Tail(ps)) = res \o Units(ps)
<1>1. o.data = <<Head(ps).unit>>
  <2>1. PICK x \in ObjectAt(l, Head(ps).num) : x.data = <<Head(ps).unit>>
    BY DEF PartFound
  <2>2. x = o
    BY <2>1 DEF ObjectAt, StoreInv, ObjectsOK
  <2> QED BY <2>1, <2>2
<1>2. Tail(ps) \in Seq(Part) /\ Head(ps) \in Part
  OBVIOUS
<1>3. res \o o.data \in Seq(Nat)
  BY <1>1, <1>2 DEF Part
<1>4. (res \o o.data) \o Units(Tail(ps)) = res \o Units(ps)
  BY <1>1, UnitsTail
<1> QED BY <1>2, <1>3, <1>4

LEMMA StreamStep ==
    ASSUME StoreInv, ReadInv, NEW r \in Readers, SwiftStream(r)
    PROVE  ReadInv'
<1> DEFINE rd == reader[r]
           part == Head(rd.parts)
<1>1. written' = written /\ rd.pc = "stream"
  BY DEF SwiftStream, vars
<1>2. /\ rd \in ReaderRec /\ rd.parts \in Seq(Part) /\ rd.parts # <<>>
      /\ rd.res \in Seq(Nat)
      /\ \E c \in written : rd.res \o Units(rd.parts) = From(c, rd.off)
  BY <1>1 DEF ReadInv, Received, ReaderRec
<1>3. CASE Answer(r, rd, Unreadable)
  <2>1. IsError(Unreadable)
    BY DEF IsError
  <2> QED BY <1>1, <1>2, <1>3, <2>1, AnswerOK
<1>4. ASSUME PartFound(rd.loc, part), NEW o \in ObjectAt(rd.loc, part.num),
             Deliver(r, rd, Tail(rd.parts), rd.res \o o.data)
      PROVE  ReadInv'
  <2>1. /\ Tail(rd.parts) \in Seq(Part) /\ rd.res \o o.data \in Seq(Nat)
        /\ (rd.res \o o.data) \o Units(Tail(rd.parts)) = rd.res \o Units(rd.parts)
    BY <1>2, <1>4, NextPart
  <2> QED BY <1>1, <1>2, <1>4, <2>1, DeliverOK
<1> QED BY <1>3, <1>4 DEF SwiftStream

LEMMA WrittenGrows ==
    ASSUME StoreInv, Next
    PROVE  written \subseteq written'
<1>1. Crash => written' = written
  BY DEF Crash, ghosts
<1>2. ASSUME NEW h \in Handlers, Call(h)
      PROVE  written \subseteq written'
  BY <1>2 DEF Call, PutContent, Move, Delete, Writer, Write, Commit, Close,
              Cancel, GiveUp
<1>3. ASSUME NEW h \in Handlers, Step(h)
      PROVE  written \subseteq written'
  BY <1>3 DEF Step, ListObjects, BulkDelete, DeleteChildren, DeleteRow,
              UpsertRow, MakeDir, Upload, ReadTarget, Rename, ReadSegments,
              PutSegment, RecordSegment, WriteSLO, ReadForDelete, Finish, ghosts
<1>4. ASSUME NEW h \in Handlers, Conflict(h) \/ Fault(h) \/ CutShort(h)
      PROVE  written' = written
  BY <1>4 DEF Conflict, Fault, CutShort, ghosts
<1> QED BY <1>1, <1>2, <1>3, <1>4 DEF Next

LEMMA IdleReaderOK ==
    ASSUME NEW wn
    PROVE  Received(IdleReader, wn)
<1>1. <<>> \in Seq(Part) /\ Unknown \in Value
  BY DEF Value
<1>2. IdleReader \in ReaderRec
  BY <1>1 DEF IdleReader, ReaderRec, NoLoc
<1> QED BY <1>2 DEF Received, IdleReader

LEMMA NextReadInv ==
    ASSUME StoreInv, ReadInv, [ReadNext]_readVars
    PROVE  ReadInv'
<1>1. CASE UNCHANGED readVars
  BY <1>1 DEF readVars, vars, ReadInv
<1>2. ASSUME NEW r \in Readers, ReadStep(r)
      PROVE  ReadInv'
  <2>1. CASE \/ \E p \in Files : GetContentRow(r, p)
             \/ \E p \in Files, offset \in 0..MaxOffset : ReaderRow(r, p, offset)
             \/ \E p \in Blobs, method \in {"GET", "HEAD"} :
                  URLForRow(r, p, method)
    <3>1. Blobs \subseteq Files /\ 0..MaxOffset \subseteq Nat
      BY SwiftReadsAssumption DEF Files
    <3> QED BY <2>1, <3>1, RowStep
  <2>2. CASE ReadDone(r)
    <3>1. written' = written /\ Become(r, IdleReader)
      BY <2>2 DEF ReadDone, Become, vars
    <3> QED BY <3>1, IdleReaderOK, BecomeOK
  <2> QED BY <1>2, <2>1, <2>2, OpenStep, StreamStep DEF ReadStep
<1>3. CASE StoreStep
  <2>1. written \subseteq written'
    BY <1>3, WrittenGrows DEF StoreStep, Next
  <2>2. ASSUME NEW r \in Readers
        PROVE  Received(Watched(reader[r]), written')
    <3> DEFINE rd == reader[r]
               k == Watched(rd)
    <3>1. Received(rd, written) /\ rd \in ReaderRec
      BY DEF ReadInv
    <3>2. /\ k \in ReaderRec /\ k.pc = rd.pc /\ k.parts = rd.parts
          /\ k.res = rd.res /\ k.off = rd.off
      BY <3>1 DEF Watched, ReaderRec
    <3> HIDE DEF k
    <3>3. Received(k, written')
      BY <2>1, <3>1, <3>2 DEF Received
    <3> QED BY <3>3 DEF k
  <2> QED BY <1>3, <2>2 DEF StoreStep, ReadInv, Received
<1>4. CASE ReadersCrash
  <2>1. written' = written
    BY <1>4 DEF ReadersCrash, Crash, ghosts
  <2> QED BY <1>4, <2>1, IdleReaderOK DEF ReadersCrash, ReadInv, Received
<1> QED BY <1>1, <1>2, <1>3, <1>4 DEF ReadNext

(* Readers have received parts of what was asked to be stored. *)
THEOREM ReadsAreReceived == ReadSpec => []ReadInv
<1>1. ReadInit => ReadInv
  BY IdleReaderOK DEF ReadInit, ReadInv, Received
<1>2. StoreInv /\ ReadInv /\ [ReadNext]_readVars => ReadInv'
  BY NextReadInv
<1> QED BY <1>1, <1>2, ReadersDoNoHarm, PTL DEF ReadSpec

(* A read that overlaps any calls on its file returns an error or, from its *)
(* offset on, what one PutContent was given or one Commit has put together, *)
(* although GetContent and Reader read the row, the manifest and the        *)
(* segments at different times.                                             *)
THEOREM ReadsAreWhole == ReadSpec => []WholeReads
<1>1. ReadInv => WholeReads
  BY DEF ReadInv, Received, WholeReads, Done
<1> QED BY <1>1, ReadsAreReceived, PTL

-----------------------------------------------------------------------------
(* Reads of a file that nobody touches.  From here on no two calls at a     *)
(* time work on one path, and what was acknowledged is in the stores.       *)

StoresHold ==
    \A p \in Files : acked[p] # Unknown => Holds(p, acked[p], files, objects)

(* The segments that a reader is still to get are parts of the manifest o.  *)
PartsOf(rd, o) ==
    /\ o.loc = rd.loc /\ o.num = 0 /\ o.slo
    /\ \A i \in 1..Len(rd.parts) : \E j \in 1..Len(o.parts) :
         rd.parts[i] = o.parts[j]

(* A reader is at the location of its file, which holds v, and gets what is *)
(* there.                                                                   *)
Serves(rd, v, fs, os) ==
    /\ rd.pc \in {"fetch", "url", "stream"} =>
         /\ v # Absent /\ fs[rd.path] # NoRow
         /\ rd.loc = fs[rd.path].loc /\ rd.loc # NoLoc
    /\ rd.pc = "stream" =>
         /\ rd.res \o Units(rd.parts) = From(v, rd.off)
         /\ \E o \in os : PartsOf(rd, o)
    /\ rd.pc = "done" =>
         IF v = Absent THEN rd.res = Absent
         ELSE \/ rd.res = From(v, rd.off)
              \/ rd.res = Unsupported /\ fs[rd.path].loc = NoLoc
Served(rd) ==
    /\ rd.path \in Files \cup {Root}
    /\ rd.path # Root /\ acked[rd.path] # Unknown =>
         Serves(rd, acked[rd.path], files, objects)
ServedInv == \A r \in Readers : Served(reader[r])

LEMMA HeldInStores ==
    ASSUME \A p \in Files : Safe(p, MaxFaults), StoreInv, AckedInv
    PROVE  StoresHold
<1>1. \A p \in Files : Safe(p, faults)
  <2>1. faults \in 0..MaxFaults
    BY DEF StoreInv, CountersOK
  <2> QED BY <2>1, SwiftPlusAssumption DEF Safe
<1>2. Sound
  BY <1>1 DEF Sound, Shallow, Safe, Files
<1> QED BY <1>1, <1>2 DEF StoresHold, AckedInv, KeepsInv, AckedHolds

(* A file for which something is acknowledged keeps its row and the object  *)
(* <location>/content.                                                      *)
Fixed(p) ==
    /\ files'[p] = files[p]
    /\ \A o \in objects : o.loc = files[p].loc /\ o.loc # NoLoc /\ o.num = 0
                          => o \in objects'

LEMMA FixedFlushed ==
    ASSUME StoreInv, NEW h \in Handlers, Shape(handler[h]), PutSegment(h), NEW p
    PROVE  Fixed(p)
<1> DEFINE m == handler[h]
           num == IF m.wr.segs = <<>> THEN 1 ELSE Last(m.wr.segs).num + 1
           new == Plain(m.wr.loc, num, <<m.wr.buf>>)
<1>1. PutFlush(h)
  BY PutSegmentFacts
<1>2. objects' = PutObject(new) /\ files' = files /\ m.wr.loc # NoLoc
  BY <1>1 DEF PutFlush
<1>3. num = Len(m.wr.segs) + 1 /\ Len(m.wr.segs) \in Nat
  BY <1>2, NewNumber
<1>4. new.num = Len(m.wr.segs) + 1
  BY <1>3 DEF Plain
<1> HIDE DEF new, num
<1>5. \A o \in objects : o.num = 0 => o \in objects'
  BY <1>2, <1>3, <1>4 DEF PutObject
<1> QED BY <1>2, <1>5 DEF Fixed

LEMMA FileFixed ==
    ASSUME StoreInv, ShapeInv, LocInv, InDoubt, NEW h \in Handlers,
           Call(h) \/ Step(h) \/ Conflict(h) \/ Fault(h),
           NEW p \in Files, acked[p] # Unknown, files[p] # NoRow
    PROVE  Fixed(p)
<1> DEFINE m == handler[h]
<1>0. Shape(m) /\ OwnLocs(m, files) /\ p \notin Doubtful(m)
  BY DEF ShapeInv, LocInv, LocsOK, InDoubt
<1>1. CASE p \notin RegionOf(m)
  <2>1. Confined(h)
    BY <1>0, StepsConfined
  <2>2. p \in Paths /\ ClaimsOf(m) \subseteq Paths /\ ClaimsOf(m) \subseteq RegionOf(m)
    BY SwiftPlusAssumption, ClaimsArePaths
  <2>3. \A c \in ClaimsOf(m) : p \notin Above[c]
    BY <1>1, <2>2, FileBelow
  <2>4. files'[p] = files[p]
    BY <1>1, <2>1, <2>2, <2>3 DEF Confined
  <2>5. files[p].loc \notin UsesOf(m)
    BY <1>0, <1>1, <2>2 DEF OwnLocs, HasLoc
  <2>6. \A o \in objects : o.loc = files[p].loc => o \in objects'
    BY <2>1, <2>5 DEF Confined
  <2> QED BY <2>4, <2>6 DEF Fixed
<1>2. CASE p \in RegionOf(m)
  <2>1. m.op \in {"idle", "append", "write"}
    BY <1>0, <1>2 DEF Doubtful
  <2>2. \A t \in TasksOf(m.todo) :
          t.do \in {"readsegments", "putsegment", "recordsegment", "return"}
    BY <1>0, <2>1, KindsTable DEF Shape, TaskShape, FlushTasks
  <2>3. \A do : At(h, do) =>
          do \in {"readsegments", "putsegment", "recordsegment", "return"}
    BY <2>2, NowUsed
  <2>4. CASE Call(h)
    BY <2>4, CallStart DEF Fixed
  <2>5. CASE PutSegment(h)
    BY <1>0, <2>5, FixedFlushed
  <2>6. CASE Step(h) /\ ~PutSegment(h)
    <3>1. ReadSegments(h) \/ RecordSegment(h) \/ Finish(h)
      BY <2>3, <2>6 DEF Step, ListObjects, BulkDelete, DeleteChildren, DeleteRow,
           UpsertRow, MakeDir, Upload, ReadTarget, Rename, WriteSLO, ReadForDelete
    <3>2. files' = files /\ objects' = objects
      BY <3>1 DEF ReadSegments, RecordSegment, Finish
    <3> QED BY <3>2 DEF Fixed
  <2>7. CASE Conflict(h) \/ Fault(h)
    <3>1. ~At(h, "bulkdelete")
      BY <2>3
    <3>2. files' = files /\ objects' = objects
      BY <2>7, <3>1 DEF Conflict, Fault
    <3> QED BY <3>2 DEF Fixed
  <2> QED BY <2>4, <2>5, <2>6, <2>7
<1> QED BY <1>1, <1>2

(* A file for which something is acknowledged, as a reader finds its row.   *)
LEMMA HeldRow ==
    ASSUME StoreInv, StoresHold, NEW p \in Files, acked[p] # Unknown
    PROVE  LET v == acked[p]
               fi == files[p]
           IN  /\ v = Absent <=> fi = NoRow
               /\ fi # NoRow =>
                    /\ v \in Seq(Nat) /\ Len(v) \in Nat
                    /\ fi.size = Len(v) /\ ~(fi.size < 0)
                    /\ fi.size = 0 => v = <<>>
                    /\ fi.loc = NoLoc => fi.data = v
                    /\ fi.loc # NoLoc => fi.data = <<>>
<1> DEFINE v == acked[p]
           fi == files[p]
<1>1. v \in Contentses \cup {Absent}
  BY DEF StoreInv, CountersOK, Value
<1>2. Holds(p, v, files, objects)
  BY DEF StoresHold
<1>3. v = Absent <=> fi = NoRow
  BY <1>2 DEF Holds
<1>4. ASSUME fi # NoRow
      PROVE  /\ v \in Seq(Nat) /\ Len(v) \in Nat
             /\ fi.size = Len(v) /\ ~(fi.size < 0)
             /\ fi.size = 0 => v = <<>>
             /\ fi.loc = NoLoc => fi.data = v
             /\ fi.loc # NoLoc => fi.data = <<>>
  <2>1. v \in Contentses /\ v # Absent
    BY <1>1, <1>3, <1>4
  <2>2. v \in Seq(Nat) /\ Len(v) \in Nat
    BY <2>1, ContentsSeq, SwiftPlusAssumption
  <2>3. RowHolds(p, v, fi, objects)
    BY <1>2, <2>1 DEF Holds
  <2>4. fi.size = Len(v) /\ (fi.loc = NoLoc => fi.data = v)
        /\ (fi.loc # NoLoc => fi.data = <<>>)
    BY <2>3 DEF RowHolds
  <2>5. Len(v) = 0 => v = <<>>
    BY <2>2, EmptySeq
  <2> HIDE DEF v, fi
  <2> QED BY <2>2, <2>4, <2>5
<1> QED BY <1>3, <1>4

LEMMA BecomeServed ==
    ASSUME ReadInv, ServedInv, NEW r \in Readers, NEW rd, Become(r, rd),
           Served(rd), UNCHANGED vars
    PROVE  ServedInv'
<1>1. ASSUME NEW x \in Readers PROVE Served(reader'[x])
  BY DEF ServedInv, Become, ReadInv
<1>2. files' = files /\ objects' = objects /\ acked' = acked
  BY DEF vars
<1>3. \A k : Served(k)' <=> Served(k)
  BY <1>2 DEF Served
<1> QED BY <1>1, <1>2 DEF ServedInv, Served

(* res is right as the result of a read. *)
Right(rd, res) ==
    rd.path # Root /\ acked[rd.path] # Unknown =>
        IF acked[rd.path] = Absent THEN res = Absent
        ELSE \/ res = From(acked[rd.path], rd.off)
             \/ res = Unsupported /\ files[rd.path].loc = NoLoc

LEMMA AnswerServed ==
    ASSUME ReadInv, ServedInv, NEW r \in Readers, NEW rd \in ReaderRec,
           rd.path \in Files \cup {Root}, NEW res, Right(rd, res),
           Answer(r, rd, res), UNCHANGED vars
    PROVE  ServedInv'
<1> DEFINE k == [rd EXCEPT !.pc = "done", !.loc = NoLoc, !.parts = <<>>,
                           !.res = res]
<1>1. k.pc = "done" /\ k.res = res /\ k.off = rd.off /\ k.path = rd.path
  BY DEF ReaderRec
<1>2. Become(r, k)
  BY DEF Answer
<1> HIDE DEF k
<1>3. Served(k)
  BY <1>1 DEF Served, Serves, Right
<1> QED BY <1>2, <1>3, BecomeServed

LEMMA LocateServed ==
    ASSUME ReadInv, ServedInv, NEW r \in Readers, NEW rd \in ReaderRec,
           rd.path \in Files, NEW pc \in {"fetch", "url"}, NEW l,
           acked[rd.path] # Unknown =>
             /\ acked[rd.path] # Absent /\ files[rd.path] # NoRow
             /\ l = files[rd.path].loc /\ l # NoLoc,
           Locate(r, rd, pc, l), UNCHANGED vars
    PROVE  ServedInv'
<1> DEFINE k == [rd EXCEPT !.pc = pc, !.loc = l]
<1>1. k.pc = pc /\ k.loc = l /\ k.path = rd.path
  BY DEF ReaderRec
<1>2. Become(r, k)
  BY DEF Locate
<1> HIDE DEF k
<1>3. Served(k)
  BY <1>1 DEF Served, Serves
<1> QED BY <1>2, <1>3, BecomeServed

LEMMA DeliverServed ==
    ASSUME ReadInv, ServedInv, NEW r \in Readers, NEW rd \in ReaderRec,
           rd.path \in Files \cup {Root}, NEW ps \in Seq(Part), NEW res \in Seq(Nat),
           rd.path # Root /\ acked[rd.path] # Unknown =>
             /\ acked[rd.path] # Absent /\ files[rd.path] # NoRow
             /\ rd.loc = files[rd.path].loc /\ rd.loc # NoLoc
             /\ res \o Units(ps) = From(acked[rd.path], rd.off)
             /\ ps # <<>> => \E o \in objects : PartsOf([rd EXCEPT !.parts = ps], o),
           Deliver(r, rd, ps, res), UNCHANGED vars
    PROVE  ServedInv'
<1>1. CASE ps = <<>>
  <2>1. res \o Units(ps) = res
    <3>1. Units(ps) = <<>>
      BY <1>1, UnitsEmpty
    <3> QED BY <3>1
  <2>2. Answer(r, rd, res)
    BY <1>1 DEF Deliver
  <2>3. Right(rd, res)
    BY <2>1 DEF Right
  <2> QED BY <2>2, <2>3, AnswerServed
<1>2. CASE ps # <<>>
  <2> DEFINE k == [rd EXCEPT !.pc = "stream", !.parts = ps, !.res = res]
             j == [rd EXCEPT !.parts = ps]
  <2>1. /\ k.pc = "stream" /\ k.parts = ps /\ k.res = res
        /\ k.off = rd.off /\ k.path = rd.path /\ k.loc = rd.loc
        /\ j.parts = ps /\ j.loc = rd.loc
    BY DEF ReaderRec
  <2>2. Become(r, k)
    BY <1>2 DEF Deliver
  <2>3. rd.path # Root /\ acked[rd.path] # Unknown => \E o \in objects : PartsOf(j, o)
    BY <1>2
  <2> HIDE DEF k, j
  <2>4. \A o : PartsOf(j, o) => PartsOf(k, o)
    BY <2>1 DEF PartsOf
  <2>5. Served(k)
    BY <2>1, <2>3, <2>4 DEF Served, Serves
  <2> QED BY <2>2, <2>5, BecomeServed
<1> QED BY <1>1, <1>2

LEMMA BeginIdentity ==
    ASSUME NEW op, NEW p, NEW k
    PROVE  /\ Begin(op, p, k).path = p /\ Begin(op, p, k).off = k
           /\ Begin(op, p, k).op = op
           /\ Begin(op, p, k).base = IF op = "url" THEN acked[p] ELSE Unknown
  BY DEF Begin, IdleReader

LEMMA RowServed ==
    ASSUME StoreInv, ReadInv, StoresHold, ServedInv, "GET" \in TempURLMethods,
           NEW r \in Readers, NEW p \in Files,
           \/ GetContentRow(r, p)
           \/ \E offset \in Nat : ReaderRow(r, p, offset)
           \/ \E method \in {"GET", "HEAD"} : URLForRow(r, p, method)
    PROVE  ServedInv'
<1> DEFINE v == acked[p]
           fi == files[p]
<1>1. UNCHANGED vars
  BY DEF GetContentRow, ReaderRow, URLForRow
<1>2. ASSUME v # Unknown
      PROVE  /\ v = Absent <=> fi = NoRow
             /\ fi # NoRow =>
                  /\ v \in Seq(Nat) /\ Len(v) \in Nat
                  /\ fi.size = Len(v) /\ ~(fi.size < 0)
                  /\ fi.size = 0 => v = <<>>
                  /\ fi.loc = NoLoc => fi.data = v
                  /\ fi.loc # NoLoc => fi.data = <<>>
  BY <1>2, HeldRow
<1>3. <<>> \in Seq(Nat) /\ p # Root
  BY SwiftPlusAssumption
<1> HIDE DEF v, fi
<1>4. ASSUME GetContentRow(r, p) PROVE ServedInv'
  <2> DEFINE rd == Begin("read", p, 0)
  <2>1. rd \in ReaderRec /\ rd.off = 0 /\ rd.path = p
    BY BeginType, BeginIdentity
  <2> HIDE DEF rd
  <2>2. CASE (fi = NoRow \/ fi.size < 0) /\ Answer(r, rd, Absent)
    <3>1. Right(rd, Absent)
      BY <1>2, <2>1, <2>2 DEF Right, v
    <3> QED BY <1>1, <2>1, <2>2, <3>1, AnswerServed
  <2>3. CASE fi # NoRow /\ fi.size = 0 /\ Answer(r, rd, <<>>)
    <3>1. v # Unknown => v = <<>> /\ v # Absent
      BY <1>2, <2>3
    <3>2. From(<<>>, 0) = <<>>
      BY FromEmpty
    <3>3. Right(rd, <<>>)
      BY <2>1, <3>1, <3>2 DEF Right, v
    <3> QED BY <1>1, <2>1, <2>3, <3>3, AnswerServed
  <2>4. CASE fi # NoRow /\ fi.data # <<>> /\ Answer(r, rd, fi.data)
    <3>1. v # Unknown => v = fi.data /\ v # Absent /\ v \in Seq(Nat)
      BY <1>2, <2>4
    <3>2. v # Unknown => From(v, 0) = v
      BY <3>1, FromZero
    <3>3. Right(rd, fi.data)
      BY <2>1, <3>1, <3>2 DEF Right, v
    <3> QED BY <1>1, <2>1, <2>4, <3>3, AnswerServed
  <2>5. CASE fi # NoRow /\ fi.size # 0 /\ fi.data = <<>> /\ Locate(r, rd, "fetch", fi.loc)
    <3>1. v # Unknown => v # Absent /\ fi.loc # NoLoc
      BY <1>2, <2>5
    <3> QED BY <1>1, <2>1, <2>5, <3>1, LocateServed DEF v, fi
  <2> QED BY <1>4, <2>2, <2>3, <2>4, <2>5 DEF GetContentRow, rd, fi
<1>5. ASSUME NEW offset \in Nat, ReaderRow(r, p, offset) PROVE ServedInv'
  <2> DEFINE rd == Begin("read", p, offset)
  <2>1. rd \in ReaderRec /\ rd.off = offset /\ rd.path = p
    BY BeginType, BeginIdentity
  <2> HIDE DEF rd
  <2>2. CASE (fi = NoRow \/ fi.size < 0) /\ Answer(r, rd, Absent)
    <3>1. Right(rd, Absent)
      BY <1>2, <2>1, <2>2 DEF Right, v
    <3> QED BY <1>1, <2>1, <2>2, <3>1, AnswerServed
  <2>3. CASE fi # NoRow /\ offset > fi.size /\ Answer(r, rd, <<>>)
    <3>1. v # Unknown => v # Absent /\ v \in Seq(Nat) /\ Len(v) < offset
      BY <1>2, <2>3
    <3>2. v # Unknown => From(v, offset) = <<>>
      <4>1. v # Unknown => From(v, offset) \in Seq(Nat) /\ Len(From(v, offset)) = 0
        BY <1>2, <3>1, FromFacts
      <4> QED BY <4>1, EmptySeq
    <3>3. Right(rd, <<>>)
      BY <2>1, <3>1, <3>2 DEF Right, v
    <3> QED BY <1>1, <2>1, <2>3, <3>3, AnswerServed
  <2>4. CASE fi # NoRow /\ fi.loc = NoLoc /\ Answer(r, rd, From(fi.data, offset))
    <3>1. v # Unknown => v = fi.data /\ v # Absent
      BY <1>2, <2>4
    <3>2. Right(rd, From(fi.data, offset))
      BY <2>1, <3>1 DEF Right, v
    <3> QED BY <1>1, <2>1, <2>4, <3>2, AnswerServed
  <2>5. CASE fi # NoRow /\ fi.loc # NoLoc /\ Locate(r, rd, "fetch", fi.loc)
    <3>1. v # Unknown => v # Absent
      BY <1>2, <2>5
    <3> QED BY <1>1, <2>1, <2>5, <3>1, LocateServed DEF v, fi
  <2> QED BY <1>5, <2>2, <2>3, <2>4, <2>5 DEF ReaderRow, rd, fi
<1>6. ASSUME NEW method \in {"GET", "HEAD"}, URLForRow(r, p, method)
      PROVE  ServedInv'
  <2> DEFINE rd == Begin("url", p, 0)
  <2>1. rd \in ReaderRec /\ rd.off = 0 /\ rd.path = p
    BY BeginType, BeginIdentity
  <2> HIDE DEF rd
  <2>2. CASE fi = NoRow /\ Answer(r, rd, Absent)
    <3>1. Right(rd, Absent)
      BY <1>2, <2>1, <2>2 DEF Right, v
    <3> QED BY <1>1, <2>1, <2>2, <3>1, AnswerServed
  <2>3. CASE fi # NoRow /\ fi.loc = NoLoc /\ Answer(r, rd, Unsupported)
    <3>1. v # Unknown => v # Absent
      BY <1>2, <2>3
    <3>2. Right(rd, Unsupported)
      BY <2>1, <2>3, <3>1 DEF Right, v, fi
    <3> QED BY <1>1, <2>1, <2>3, <3>2, AnswerServed
  <2>4. CASE fi # NoRow /\ fi.loc # NoLoc /\ Locate(r, rd, "url", fi.loc)
    <3>1. v # Unknown => v # Absent
      BY <1>2, <2>4
    <3> QED BY <1>1, <2>1, <2>4, <3>1, LocateServed DEF v, fi
  <2>5. MakeTempURL(method)
    BY <1>6 DEF MakeTempURL
  <2> QED BY <1>6, <2>2, <2>3, <2>4, <2>5 DEF URLForRow, rd, fi
<1> QED BY <1>4, <1>5, <1>6

(* The object at the location of a file delivers what is acknowledged. *)
LEMMA HeldObject ==
    ASSUME StoreInv, StoresHold, NEW p \in Files, acked[p] # Unknown,
           acked[p] # Absent, files[p].loc # NoLoc
    PROVE  \E o \in objects :
             /\ Delivers(o, acked[p], objects) /\ Content(o) = acked[p]
             /\ ObjectAt(files[p].loc, 0) = {o}
<1>1. RowHolds(p, acked[p], files[p], objects)
  BY DEF StoresHold, Holds
<1>2. PICK o \in objects : o.loc = files[p].loc /\ Delivers(o, acked[p], objects)
  BY <1>1 DEF RowHolds
<1>3. Content(o) = acked[p] /\ o.num = 0
  BY <1>2 DEF Delivers, Content
<1>4. ObjectAt(files[p].loc, 0) = {o}
  BY <1>2, <1>3 DEF ObjectAt, StoreInv, ObjectsOK
<1> QED BY <1>2, <1>3, <1>4

LEMMA OpenServed ==
    ASSUME StoreInv, ReadInv, StoresHold, ServedInv, NEW r \in Readers, SwiftOpen(r)
    PROVE  ServedInv'
<1> DEFINE rd == reader[r]
           p == rd.path
<1>1. UNCHANGED vars /\ rd.pc \in {"fetch", "url"}
  BY DEF SwiftOpen
<1>2. rd \in ReaderRec /\ Served(rd) /\ rd.off \in Nat
  BY DEF ReadInv, ServedInv, ReaderRec
<1>3. p \in Files \cup {Root}
  BY <1>2 DEF Served
<1>4. ASSUME p # Root, acked[p] # Unknown
      PROVE  /\ acked[p] # Absent /\ files[p] # NoRow
             /\ rd.loc = files[p].loc /\ rd.loc # NoLoc
             /\ \E o \in objects : Content(o) = acked[p] /\ ObjectAt(rd.loc, 0) = {o}
  <2>1. /\ acked[p] # Absent /\ files[p] # NoRow
        /\ rd.loc = files[p].loc /\ rd.loc # NoLoc
    BY <1>1, <1>2, <1>4 DEF Served, Serves
  <2> QED BY <1>3, <1>4, <2>1, HeldObject
<1>5. CASE ObjectAt(rd.loc, 0) = {} /\ Answer(r, rd, Unreadable)
  <2>1. Right(rd, Unreadable)
    BY <1>4, <1>5 DEF Right
  <2> QED BY <1>1, <1>2, <1>3, <1>5, <2>1, AnswerServed
<1>6. ASSUME NEW o \in ObjectAt(rd.loc, 0),
             Deliver(r, rd, From(o.parts, rd.off), From(o.data, rd.off))
      PROVE  ServedInv'
  <2> DEFINE k == rd.off
             ps == From(o.parts, k)
             res == From(o.data, k)
             j == [rd EXCEPT !.parts = ps]
  <2>1. /\ ps \in Seq(Part) /\ res \in Seq(Nat) /\ o.parts \in Seq(Part)
        /\ res \o Units(ps) = From(Content(o), k)
        /\ ~o.slo => ps = <<>>
    BY <1>2, OpenGets
  <2>2. p # Root /\ acked[p] # Unknown => Content(o) = acked[p]
    BY <1>4
  <2>3. ps # <<>> => PartsOf(j, o)
    <3>1. j.parts = ps /\ j.loc = rd.loc
      BY <1>2 DEF ReaderRec
    <3>2. \A i \in 1..Len(ps) : ps[i] = o.parts[i + k] /\ i + k \in 1..Len(o.parts)
      <4>1. /\ Len(ps) = IF k <= Len(o.parts) THEN Len(o.parts) - k ELSE 0
            /\ \A i \in 1..Len(ps) : ps[i] = o.parts[i + k]
        BY <1>2, <2>1, FromFacts
      <4>2. Len(o.parts) \in Nat
        BY <2>1
      <4> HIDE DEF ps
      <4> QED BY <1>2, <4>1, <4>2
    <3> HIDE DEF j, ps
    <3> QED BY <2>1, <3>1, <3>2 DEF PartsOf, ObjectAt
  <2>4. o \in objects /\ Deliver(r, rd, ps, res)
    BY <1>6 DEF ObjectAt
  <2>5. p # Root /\ acked[p] # Unknown =>
          /\ acked[p] # Absent /\ files[p] # NoRow
          /\ rd.loc = files[p].loc /\ rd.loc # NoLoc
          /\ res \o Units(ps) = From(acked[p], rd.off)
          /\ ps # <<>> => \E x \in objects : PartsOf([rd EXCEPT !.parts = ps], x)
    BY <1>4, <2>1, <2>2, <2>3, <2>4
  <2> HIDE DEF ps, res, j
  <2> QED BY <1>1, <1>2, <1>3, <2>1, <2>4, <2>5, DeliverServed
<1> QED BY <1>5, <1>6 DEF SwiftOpen

LEMMA StreamServed ==
    ASSUME StoreInv, ManifestInv, ReadInv, StoresHold, ServedInv, NEW r \in Readers,
           SwiftStream(r)
    PROVE  ServedInv'
<1> DEFINE rd == reader[r]
           p == rd.path
           part == Head(rd.parts)
           ps == Tail(rd.parts)
<1>1. UNCHANGED vars /\ rd.pc = "stream"
  BY DEF SwiftStream
<1>2. /\ rd \in ReaderRec /\ Served(rd) /\ rd.parts \in Seq(Part)
      /\ rd.parts # <<>> /\ rd.res \in Seq(Nat)
  BY <1>1 DEF ReadInv, ServedInv, ReaderRec, Received
<1>3. p \in Files \cup {Root}
  BY <1>2 DEF Served
<1>4. ASSUME p # Root, acked[p] # Unknown
      PROVE  /\ acked[p] # Absent /\ files[p] # NoRow
             /\ rd.loc = files[p].loc /\ rd.loc # NoLoc
             /\ rd.res \o Units(rd.parts) = From(acked[p], rd.off)
             /\ \E o \in objects : PartsOf(rd, o)
  BY <1>1, <1>2, <1>4 DEF Served, Serves
<1>5. ASSUME p # Root, acked[p] # Unknown
      PROVE  PartFound(rd.loc, part)
  <2>1. PICK o \in objects : PartsOf(rd, o)
    BY <1>4, <1>5
  <2>2. Delivers(o, acked[p], objects)
    <3>1. o \in ObjectAt(files[p].loc, 0)
      BY <1>4, <1>5, <2>1 DEF PartsOf, ObjectAt
    <3> QED BY <1>3, <1>4, <1>5, <3>1, HeldObject
  <2>3. PICK j \in 1..Len(o.parts) : rd.parts[1] = o.parts[j]
    <3>1. 1 \in 1..Len(rd.parts)
      BY <1>2
    <3> QED BY <2>1, <3>1 DEF PartsOf
  <2>4. part = o.parts[j] /\ part.num = j
    BY <1>2, <2>1, <2>3 DEF ManifestInv, Recorded, PartsOf
  <2>5. PICK x \in objects : x.loc = o.loc /\ x.num = j /\ x.data = <<o.parts[j].unit>>
    BY <2>1, <2>2 DEF Delivers, PartsOf
  <2> HIDE DEF part
  <2> QED BY <2>1, <2>4, <2>5 DEF PartFound, ObjectAt, PartsOf
<1>6. CASE ~PartFound(rd.loc, part) /\ Answer(r, rd, Unreadable)
  <2>1. Right(rd, Unreadable)
    BY <1>5, <1>6 DEF Right
  <2> QED BY <1>1, <1>2, <1>3, <1>6, <2>1, AnswerServed
<1>7. ASSUME PartFound(rd.loc, part), NEW o \in ObjectAt(rd.loc, part.num),
             Deliver(r, rd, ps, rd.res \o o.data)
      PROVE  ServedInv'
  <2> DEFINE res == rd.res \o o.data
             j == [rd EXCEPT !.parts = ps]
  <2>1. ps \in Seq(Part) /\ res \in Seq(Nat) /\ res \o Units(ps) = rd.res \o Units(rd.parts)
    BY <1>2, <1>7, NextPart
  <2>2. \A x : PartsOf(rd, x) => PartsOf(j, x)
    <3>1. j.parts = ps /\ j.loc = rd.loc
      BY <1>2 DEF ReaderRec
    <3>2. \A i \in 1..Len(ps) : ps[i] = rd.parts[i + 1] /\ i + 1 \in 1..Len(rd.parts)
      BY <1>2
    <3> HIDE DEF j, ps
    <3> QED BY <3>1, <3>2 DEF PartsOf
  <2>3. Deliver(r, rd, ps, res)
    BY <1>7
  <2>4. p # Root /\ acked[p] # Unknown =>
          /\ acked[p] # Absent /\ files[p] # NoRow
          /\ rd.loc = files[p].loc /\ rd.loc # NoLoc
          /\ res \o Units(ps) = From(acked[p], rd.off)
          /\ ps # <<>> => \E x \in objects : PartsOf([rd EXCEPT !.parts = ps], x)
    BY <1>4, <2>1, <2>2
  <2> HIDE DEF ps, res, j
  <2> QED BY <1>1, <1>2, <1>3, <2>1, <2>3, <2>4, DeliverServed
<1> QED BY <1>6, <1>7 DEF SwiftStream

LEMMA StoreServed ==
    ASSUME StoreInv, ShapeInv, LocInv, InDoubt, ReadInv, ServedInv, StoreStep
    PROVE  ServedInv'
<1>1. PICK h \in Handlers : Call(h) \/ Step(h) \/ Conflict(h) \/ Fault(h) \/ CutShort(h)
  BY DEF StoreStep
<1> SUFFICES ASSUME NEW r \in Readers PROVE Served(reader[r])'
  BY DEF ServedInv
<1> DEFINE rd == reader[r]
           k == reader'[r]
           p == rd.path
<1>2. k = Watched(rd) /\ rd.pc # "done" /\ rd \in ReaderRec /\ Served(rd)
  BY DEF StoreStep, ReadInv, ServedInv
<1>3. CASE p # Root /\ acked'[p] # acked[p]
  <2>1. k.path = Root
    BY <1>2, <1>3 DEF Watched, ReaderRec
  <2> QED BY <2>1 DEF Served
<1>4. CASE p = Root \/ acked'[p] = acked[p]
  <2>1. k = rd /\ p \in Files \cup {Root}
    BY <1>2, <1>4 DEF Watched, Served
  <2> SUFFICES ASSUME p # Root, acked[p] # Unknown
               PROVE  Serves(k, acked'[p], files', objects')
    BY <1>4, <2>1 DEF Served
  <2>2. Serves(rd, acked[p], files, objects)
    BY <1>2 DEF Served
  <2>3. ASSUME files[p] # NoRow PROVE Fixed(p)
    <3>1. CASE CutShort(h)
      BY <3>1 DEF CutShort, Fixed
    <3>2. CASE ~CutShort(h)
      BY <1>1, <2>1, <2>3, <3>2, FileFixed
    <3> QED BY <3>1, <3>2
  <2>4. rd.pc \in {"idle", "fetch", "url", "stream"}
    BY <1>2 DEF ReaderRec
  <2>5. CASE rd.pc = "idle"
    BY <2>1, <2>5 DEF Serves
  <2>6. CASE rd.pc # "idle"
    <3>1. /\ acked[p] # Absent /\ files[p] # NoRow /\ files'[p] = files[p]
          /\ rd.loc = files[p].loc /\ rd.loc # NoLoc
      BY <2>2, <2>3, <2>4, <2>6 DEF Serves, Fixed
    <3>2. \A o \in objects : PartsOf(rd, o) => o \in objects'
      BY <2>3, <3>1 DEF Fixed, PartsOf
    <3>3. acked'[p] = acked[p]
      BY <1>4
    <3> HIDE DEF k, rd
    <3> QED BY <1>2, <2>1, <2>2, <3>1, <3>2, <3>3 DEF Serves
  <2> QED BY <2>5, <2>6
<1> QED BY <1>3, <1>4

LEMMA IdleServed == Served(IdleReader)
  BY DEF Served, IdleReader

LEMMA NextServedInv ==
    ASSUME "GET" \in TempURLMethods, StoreInv, ShapeInv, LocInv, InDoubt, ManifestInv,
           StoresHold, ReadInv, ServedInv, [ReadNext]_readVars
    PROVE  ServedInv'
<1>1. CASE UNCHANGED readVars
  BY <1>1 DEF readVars, vars, ServedInv, Served
<1>2. ASSUME NEW r \in Readers, ReadStep(r)
      PROVE  ServedInv'
  <2>1. CASE \/ \E p \in Files : GetContentRow(r, p)
             \/ \E p \in Files, offset \in 0..MaxOffset : ReaderRow(r, p, offset)
             \/ \E p \in Blobs, method \in {"GET", "HEAD"} :
                  URLForRow(r, p, method)
    <3>1. Blobs \subseteq Files /\ 0..MaxOffset \subseteq Nat
      BY SwiftReadsAssumption DEF Files
    <3> QED BY <2>1, <3>1, RowServed
  <2>2. CASE ReadDone(r)
    <3>1. UNCHANGED vars /\ Become(r, IdleReader)
      BY <2>2 DEF ReadDone, Become
    <3> QED BY <3>1, IdleServed, BecomeServed
  <2> QED BY <1>2, <2>1, <2>2, OpenServed, StreamServed DEF ReadStep
<1>3. CASE StoreStep
  BY <1>3, StoreServed
<1>4. CASE ReadersCrash
  <2>1. files' = files /\ objects' = objects /\ acked' = acked
    BY <1>4 DEF ReadersCrash, Crash, ghosts
  <2>2. \A r \in Readers : reader'[r] \in {reader[r], IdleReader}
    BY <1>4 DEF ReadersCrash
  <2>3. \A r \in Readers : Served(reader'[r])
    BY <2>2, IdleServed DEF ServedInv
  <2> QED BY <2>1, <2>3 DEF ServedInv, Served
<1> QED BY <1>1, <1>2, <1>3, <1>4 DEF ReadNext

(* Called by one caller at a time per path, and with a key for temporary    *)
(* URLs: a read or a temporary URL of a file that no call touches between   *)
(* its first and its last step delivers what was acknowledged, whatever     *)
(* calls on other files, an open writer on this one that has missed no      *)
(* error, failures and crashes do in between.  As for the register of       *)
(* SwiftAcked_proofs, nothing fails or no file is further below a directory *)
(* that is deleted.                                                         *)
THEOREM UndisturbedReadsAreRight ==
    Exclusive /\ (\A p \in Files : Safe(p, MaxFaults)) /\ "GET" \in TempURLMethods =>
        (ReadSpec => []UndisturbedRead)
<1> SUFFICES ASSUME Exclusive, \A p \in Files : Safe(p, MaxFaults),
                    "GET" \in TempURLMethods
             PROVE  ReadSpec => []UndisturbedRead
  OBVIOUS
<1>1. ReadInit => ServedInv
  BY IdleServed DEF ReadInit, ServedInv
<1>2. TreesInv /\ AckedInv /\ ReadInv /\ ServedInv /\ [ReadNext]_readVars => ServedInv'
  <2> SUFFICES ASSUME TreesInv, AckedInv, ReadInv, ServedInv, [ReadNext]_readVars
               PROVE  ServedInv'
    OBVIOUS
  <2>1. /\ StoreInv /\ ShapeInv /\ LocInv /\ InDoubt /\ ManifestInv
    BY DEF TreesInv, ExclusiveInv, AckedInv
  <2>2. StoresHold
    BY <2>1, HeldInStores
  <2> QED BY <2>1, <2>2, NextServedInv
<1>3. ServedInv => UndisturbedRead
  BY DEF ServedInv, Served, Serves, UndisturbedRead, Done
<1>4. ReadSpec => [](TreesInv /\ AckedInv)
  <2>1. Spec => []TreesInv
    BY TreesStayWhole
  <2>2. Spec => []AckedInv
    BY PromisesAreKept
  <2> QED BY <2>1, <2>2, ReadersOnlyRead, PTL
<1>5. ReadSpec => []ReadInv
  BY ReadsAreReceived
<1> QED BY <1>1, <1>2, <1>3, <1>4, <1>5, PTL DEF ReadSpec

-----------------------------------------------------------------------------
(* Temporary URLs, which are followed long after they were made. *)

(* The call or the writer of m may yet write <location>/content. *)
Writes(m, l) ==
    m.wr.loc = l \/ \E t \in TasksOf(m.todo) : t.do = "upload" /\ t.loc = l

(* Nobody writes at l any more, nor can a writer be opened there; what is   *)
(* at l, if it has not been deleted, stands for v.                          *)
SettledIn(l, v, hs, fs, os, n) ==
    /\ l \in 1..n
    /\ \A h \in Handlers : ~Writes(hs[h], l)
    /\ \A p \in Uploads : ~HasLoc(fs, p, l)
    /\ \A o \in os : o.loc = l /\ o.num = 0 => Content(o) = v
Settled(l, v) == SettledIn(l, v, handler, files, objects, nextLoc)

URLOK(rd) ==
    rd.op = "url" /\ rd.base \notin {Absent, Unknown} =>
        /\ rd.off = 0 /\ rd.pc \notin {"idle", "fetch"}
        /\ rd.pc = "url" => Settled(rd.loc, rd.base)
        /\ rd.pc = "stream" => rd.res \o Units(rd.parts) = rd.base
        /\ rd.pc = "done" /\ ~IsError(rd.res) => rd.res = rd.base
URLInv == \A r \in Readers : URLOK(reader[r])

(* No step within a call gives it something new to write. *)
LEMMA WritesStep ==
    ASSUME StoreInv, NEW h \in Handlers, Shape(handler[h]), Step(h), NEW l,
           l # NoLoc, Writes(handler'[h], l)
    PROVE  Writes(handler[h], l)
<1> DEFINE m == handler[h]
           k == handler'[h]
<1>1. ASSUME NEW do, NEW tasks, StepBy(h, do, tasks),
             \A t \in TasksOf(tasks) : t.do # "upload"
      PROVE  Writes(m, l)
  <2>1. /\ TasksOf(k.todo) = TasksOf(tasks) \cup TasksOf(Tail(m.todo))
        /\ TasksOf(m.todo) = {Now(h)} \cup TasksOf(Tail(m.todo))
    BY <1>1, StepTodo
  <2>2. k.wr.loc = m.wr.loc
    BY <1>1 DEF StepBy, SameCall
  <2> HIDE DEF k, m
  <2> QED BY <1>1, <2>1, <2>2 DEF Writes, k, m
<1>2. CASE ListObjects(h)
  <2>1. PICK b, tasks :
        StepBy(h, "list", tasks) /\ TasksOf(tasks) = {b} /\ b.do = "bulkdelete"
    BY <1>2, ListFacts
  <2> QED BY <1>1, <2>1
<1>3. CASE BulkDelete(h) \/ DeleteRow(h) \/ UpsertRow(h) \/ Upload(h) \/ Rename(h)
  <2>1. \E do : StepBy(h, do, <<>>)
    BY <1>3, DoneFacts DEF BulkDelete, DeleteRow, UpsertRow, Upload, Rename
  <2> QED BY <1>1, <2>1, TasksOne
<1>4. CASE DeleteChildren(h) \/ ReadTarget(h) \/ ReadForDelete(h)
  <2>1. PICK do, tasks : DownStep(h, do, tasks)
    BY <1>4, ChildrenDown, ReadRowDown
  <2>2. \A t \in TasksOf(tasks) : t.do # "upload"
    BY <2>1 DEF DownStep, DownTasks, ListTasks, Task
  <2> QED BY <1>1, <2>1, <2>2 DEF DownStep
<1>5. CASE MakeDir(h)
  <2> DEFINE q == mkdirAll(Parent[Now(h).path])
  <2>1. StepBy(h, "mkdir", q) /\ TasksOf(q) = DirTasks(Parent[Now(h).path])
    BY <1>5, MakeDirFacts
  <2>2. \A t \in TasksOf(q) : t.do # "upload"
    BY <2>1 DEF DirTasks, Task
  <2> QED BY <1>1, <2>1, <2>2
<1>6. CASE ReadSegments(h) \/ PutSegment(h) \/ RecordSegment(h)
  <2>1. \E do : StepBy(h, do, <<>>)
    BY <1>6, ReadSegmentsFacts, PutSegmentFacts, RecordSegmentFacts
  <2> QED BY <1>1, <2>1, TasksOne
<1>7. CASE WriteSLO(h)
  <2> DEFINE q == writeFileInfo(m.wr.path, ManifestRow(m.wr))
  <2>1. StepBy(h, "manifest", q) /\ TasksOf(q) = RowTasks(m.wr.path, ManifestRow(m.wr))
    BY <1>7, WriteSLOFacts
  <2>2. \A t \in TasksOf(q) : t.do # "upload"
    BY <2>1 DEF RowTasks, DirTasks, Task
  <2> QED BY <1>1, <2>1, <2>2
<1>8. CASE Finish(h)
  <2>1. FinishRec(h)
    BY <1>8, FinishFacts
  <2>2. TasksOf(k.todo) = {} /\ (k.wr.loc = m.wr.loc \/ k.wr = NoWriter)
    BY <2>1, TasksOne DEF FinishRec, IdleRec
  <2> HIDE DEF k, m
  <2> QED BY <2>2 DEF Writes, k, m, NoWriter
<1> QED BY <1>2, <1>3, <1>4, <1>5, <1>6, <1>7, <1>8 DEF Step

LEMMA WritesCut ==
    ASSUME StoreInv, NEW h \in Handlers, Shape(handler[h]), CutShort(h), NEW l,
           l # NoLoc, Writes(handler'[h], l)
    PROVE  Writes(handler[h], l)
<1> DEFINE m == handler[h]
           k == handler'[h]
<1>1. PICK do, tasks : StepBy(h, do, tasks) /\ \A t \in TasksOf(tasks) : t.do # "upload"
  <2>1. CASE CutSegments(h)
    BY <2>1, CutSegmentsFacts, TasksOne
  <2>2. CASE CutChildren(h)
    <3>1. PICK do, tasks : DownStep(h, do, tasks)
      BY <2>2, CutChildrenDown
    <3>2. \A t \in TasksOf(tasks) : t.do # "upload"
      BY <3>1 DEF DownStep, DownTasks, ListTasks, Task
    <3> QED BY <3>1, <3>2 DEF DownStep
  <2> QED BY <2>1, <2>2 DEF CutShort
<1>2. /\ TasksOf(k.todo) = TasksOf(tasks) \cup TasksOf(Tail(m.todo))
      /\ TasksOf(m.todo) = {Now(h)} \cup TasksOf(Tail(m.todo))
  BY <1>1, StepTodo
<1>3. k.wr.loc = m.wr.loc
  BY <1>1 DEF StepBy, SameCall
<1> HIDE DEF k, m
<1> QED BY <1>1, <1>2, <1>3 DEF Writes, k, m

LEMMA WritesError ==
    ASSUME StoreInv, NEW h \in Handlers, Conflict(h) \/ Fault(h), NEW l,
           l # NoLoc, Writes(handler'[h], l)
    PROVE  Writes(handler[h], l)
<1>1. ErrorRec(h)
  BY ErrorFacts DEF Conflict, Fault
<1>2. /\ TasksOf(handler'[h].todo) = {}
      /\ handler'[h].wr.loc = handler[h].wr.loc \/ handler'[h].wr = NoWriter
  BY <1>1, TasksOne DEF ErrorRec, IdleRec
<1> QED BY <1>2 DEF Writes, NoWriter

(* A new call writes at a new location, or at that of an upload. *)
LEMMA WritesCall ==
    ASSUME StoreInv, NEW h \in Handlers, Call(h), NEW l \in 1..nextLoc,
           \A p \in Uploads : ~HasLoc(files, p, l), Writes(handler'[h], l)
    PROVE  Writes(handler[h], l)
<1> DEFINE m == handler[h]
           k == handler'[h]
<1>0. l # NoLoc /\ nextLoc \in Nat /\ l # nextLoc + 1
  BY BoundsNat DEF NoLoc
<1>1. ASSUME k.wr = m.wr, \A t \in TasksOf(k.todo) : t.do = "upload" => t.loc # l
      PROVE  Writes(m, l)
  BY <1>1 DEF Writes
<1>2. ASSUME NEW p \in Blobs, NEW large \in BOOLEAN, PutContent(h, p, large)
      PROVE  Writes(m, l)
  <2>1. PICK row : PutCall(h, p, large, row)
    BY <1>2, PutFacts
  <2>2. k.wr = m.wr
    BY <2>1 DEF PutCall, CallRec
  <2>3. \A t \in TasksOf(k.todo) : t.do = "upload" => t.loc = nextLoc + 1
    BY <2>1 DEF PutCall, RowTasks, DirTasks, ListTasks, Task, Return
  <2> QED BY <1>0, <1>1, <2>2, <2>3
<1>3. ASSUME NEW s \in Uploads, NEW d \in Blobs, Move(h, s, d)
      PROVE  Writes(m, l)
  <2>1. MoveCall(h, s, d)
    BY <1>3, MoveFacts
  <2>2. k.wr = m.wr /\ \A t \in TasksOf(k.todo) : t.do # "upload"
    BY <2>1 DEF MoveCall, CallRec, DirTasks, Task, Return
  <2> QED BY <1>1, <2>2
<1>4. ASSUME NEW p \in Files \cup UploadDirs, Delete(h, p)
      PROVE  Writes(m, l)
  <2>1. DeleteCall(h, p)
    BY <1>4, DeleteFacts
  <2>2. k.wr = m.wr /\ \A t \in TasksOf(k.todo) : t.do # "upload"
    BY <2>1 DEF DeleteCall, CallRec, DownTasks, ListTasks, Task, Return
  <2> QED BY <1>1, <2>2
<1>5. ASSUME NEW p \in Uploads, NEW append \in BOOLEAN, Writer(h, p, append)
      PROVE  Writes(m, l)
  <2>1. WriterCall(h, p, append)
    BY <1>5, WriterCallFacts
  <2>2. k.wr.loc # l
    BY <1>0, <2>1 DEF WriterCall, HasLoc
  <2>3. \A t \in TasksOf(k.todo) : t.do # "upload"
    BY <2>1 DEF WriterCall, DownTasks, ListTasks, Task, Return
  <2> QED BY <2>2, <2>3 DEF Writes
<1>6. ASSUME NEW op, NEW extra, UseCall(h, op, extra),
             \A t \in extra : t.do # "upload"
      PROVE  Writes(m, l)
  <2>1. k.wr = m.wr /\ \A t \in TasksOf(k.todo) : t.do # "upload"
    BY <1>6 DEF UseCall, CallRec, FlushSet, PutTask, RecordTask, Task, Return
  <2> QED BY <1>1, <2>1
<1>7. CASE Write(h) \/ Cancel(h)
  <2> DEFINE c == {Task("delete", m.wr.path, NoLoc, NoRow)}
  <2>1. UseCall(h, "write", {}) \/ UseCall(h, "cancel", c)
    BY <1>7, WriteFacts, CancelFacts
  <2>2. \A t \in c : t.do # "upload"
    BY DEF Task
  <2> HIDE DEF c
  <2> QED BY <1>6, <2>1, <2>2
<1>8. ASSUME NEW op \in {"commit", "close"}, Commit(h, op)
      PROVE  Writes(m, l)
  <2> DEFINE c == {Task("manifest", m.wr.path, m.wr.loc, NoRow)}
  <2>1. UseCall(h, op, c)
    BY <1>8, CommitFacts
  <2>2. \A t \in c : t.do # "upload"
    BY DEF Task
  <2> HIDE DEF c
  <2> QED BY <1>6, <2>1, <2>2
<1>9. CASE Close(h) \/ GiveUp(h)
  <2>1. k = IdleHandler
    BY <1>9, LeaveFacts
  <2>2. k.wr = NoWriter /\ k.todo = <<>>
    BY <2>1, IdleWith DEF IdleRec
  <2>3. k.wr.loc = NoLoc /\ TasksOf(k.todo) = {}
    <3> HIDE DEF k
    <3>1. k.wr.loc = NoLoc
      BY <2>2 DEF NoWriter
    <3>2. TasksOf(k.todo) = {}
      BY <2>2, TasksOne
    <3> QED BY <3>1, <3>2
  <2> QED BY <1>0, <2>3 DEF Writes
<1> QED BY <1>2, <1>3, <1>4, <1>5, <1>7, <1>8, <1>9 DEF Call

(* The row of an upload gets a location only from who writes there. *)
LEMMA RowsStep ==
    ASSUME StoreInv, NEW h \in Handlers, Shape(handler[h]), Step(h), NEW l,
           l # NoLoc, ~Writes(handler[h], l), NEW p \in Uploads,
           ~HasLoc(files, p, l)
    PROVE  ~HasLoc(files', p, l)
<1> DEFINE m == handler[h]
<1>0. p \in Paths /\ p \notin Blobs /\ p \notin Dirs
  BY SwiftPlusAssumption DEF Files, Dirs
<1>1. CASE files'[p] = files[p] \/ files'[p] = NoRow
  BY <1>1 DEF HasLoc
<1>2. CASE DeleteRow(h)
  <2>1. files'[p] = files[p] \/ files'[p] = NoRow
    BY <1>0, <1>2 DEF DeleteRow, StoreInv, RowsOK
  <2> QED BY <1>1, <2>1
<1>3. CASE UpsertRow(h)
  <2> DEFINE row == Now(h).row
  <2>1. /\ files' = [files EXCEPT ![Now(h).path] = row]
        /\ \/ row.loc # NoLoc => \E s \in TasksOf(m.todo) :
                s.do = "upload" /\ s.loc = row.loc
           \/ row.loc = m.wr.loc
    BY <1>3, UpsertFacts
  <2>2. files'[p] = files[p] \/ files'[p] = row
    BY <1>0, <2>1 DEF StoreInv, RowsOK
  <2>3. row.loc # l
    BY <2>1 DEF Writes
  <2> QED BY <1>1, <2>2, <2>3 DEF HasLoc
<1>4. CASE MakeDir(h)
  <2> DEFINE d == Now(h).path
  <2>1. d \in Dirs /\ files' = [files EXCEPT ![d] = IF files[d] = NoRow THEN DirRow
                                                   ELSE files[d]]
    BY <1>4, MakeDirFacts
  <2>2. files'[p] = files[p]
    BY <1>0, <2>1 DEF StoreInv, RowsOK
  <2> QED BY <1>1, <2>2
<1>5. CASE Rename(h)
  <2>1. /\ m.path \in Paths /\ m.dest \in Blobs /\ m.path # m.dest
        /\ files' = IF files[m.path] = NoRow THEN files
                    ELSE [files EXCEPT ![m.path] = NoRow, ![m.dest] = files[m.path]]
    BY <1>5, RenameFacts
  <2>2. files'[p] = files[p] \/ files'[p] = NoRow
    BY <1>0, <2>1 DEF StoreInv, RowsOK
  <2> QED BY <1>1, <2>2
<1>6. CASE ~DeleteRow(h) /\ ~UpsertRow(h) /\ ~MakeDir(h) /\ ~Rename(h)
  <2>1. files' = files
    BY <1>6 DEF Step, ListObjects, BulkDelete, DeleteChildren, Upload, ReadTarget,
                ReadSegments, PutSegment, RecordSegment, WriteSLO, ReadForDelete, Finish
  <2> QED BY <1>1, <2>1
<1> QED BY <1>2, <1>3, <1>4, <1>5, <1>6

(* An object <location>/content comes only from who writes there. *)
LEMMA ObjectsStep ==
    ASSUME StoreInv, NEW h \in Handlers,
           Call(h) \/ Step(h) \/ Conflict(h) \/ Fault(h) \/ CutShort(h), NEW l,
           ~Writes(handler[h], l), NEW o \in objects', o.loc = l
    PROVE  o \in objects
<1>1. CASE objects' \subseteq objects
  BY <1>1
<1>2. CASE Upload(h)
  <2>1. objects' = PutObject(Plain(Now(h).loc, 0, handler[h].val)) /\ At(h, "upload")
    BY <1>2 DEF Upload
  <2>2. o \in objects \/ o.loc = Now(h).loc
    BY <2>1 DEF PutObject, Plain
  <2>3. Now(h) \in TasksOf(handler[h].todo) /\ Now(h).do = "upload"
    BY <2>1, NowUsed
  <2> QED BY <2>2, <2>3 DEF Writes
<1>3. CASE PutSegment(h)
  <2>1. \E n, d : objects' = PutObject(Plain(handler[h].wr.loc, n, d))
    BY <1>3 DEF PutSegment
  <2>2. o \in objects \/ o.loc = handler[h].wr.loc
    BY <2>1 DEF PutObject, Plain
  <2> QED BY <2>2 DEF Writes
<1>4. CASE WriteSLO(h)
  <2>1. \E s : objects' = PutObject(Manifest(handler[h].wr.loc, s))
    BY <1>4 DEF WriteSLO
  <2>2. o \in objects \/ o.loc = handler[h].wr.loc
    BY <2>1 DEF PutObject, Manifest
  <2> QED BY <2>2 DEF Writes
<1>5. CASE Call(h)
  BY <1>5, CallStart
<1>6. CASE Conflict(h) \/ Fault(h) \/ CutShort(h)
  BY <1>1, <1>6 DEF Conflict, Fault, CutShort
<1>7. CASE Step(h) /\ ~Upload(h) /\ ~PutSegment(h) /\ ~WriteSLO(h)
  <2>1. objects' \subseteq objects
    BY <1>7 DEF Step, ListObjects, BulkDelete, DeleteChildren, DeleteRow, UpsertRow,
                MakeDir, ReadTarget, Rename, ReadSegments, RecordSegment,
                ReadForDelete, Finish
  <2> QED BY <2>1
<1> QED BY <1>2, <1>3, <1>4, <1>5, <1>6, <1>7

LEMMA LocsGrow ==
    ASSUME StoreInv, [Next]_vars
    PROVE  1..nextLoc \subseteq 1..nextLoc'
<1>1. nextLoc' = nextLoc \/ nextLoc' = nextLoc + 1
  <2>1. CASE Crash \/ UNCHANGED vars
    BY <2>1 DEF Crash, vars
  <2>2. ASSUME NEW h \in Handlers, Call(h)
        PROVE  nextLoc' = nextLoc \/ nextLoc' = nextLoc + 1
    BY <2>2 DEF Call, PutContent, Move, Delete, Writer, Write, Commit, Close,
                Cancel, GiveUp
  <2>3. ASSUME NEW h \in Handlers, Step(h) \/ Conflict(h) \/ Fault(h) \/ CutShort(h)
        PROVE  nextLoc' = nextLoc
    BY <2>3 DEF Step, ListObjects, BulkDelete, DeleteChildren, DeleteRow,
              UpsertRow, MakeDir, Upload, ReadTarget, Rename, ReadSegments,
              PutSegment, RecordSegment, WriteSLO, ReadForDelete, Finish,
              Conflict, Fault, CutShort, bounds
  <2> QED BY <2>1, <2>2, <2>3 DEF Next
<1> QED BY <1>1, BoundsNat

(* What is settled stays so: locations are never used twice. *)
LEMMA SettledNext ==
    ASSUME StoreInv, ShapeInv, [Next]_vars, NEW l, NEW v, Settled(l, v)
    PROVE  SettledIn(l, v, handler', files', objects', nextLoc')
<1>0. l \in 1..nextLoc /\ l # NoLoc /\ l \in 1..nextLoc'
  BY LocsGrow DEF Settled, SettledIn, NoLoc
<1>1. ASSUME NEW h \in Handlers,
             Call(h) \/ Step(h) \/ Conflict(h) \/ Fault(h) \/ CutShort(h)
      PROVE  SettledIn(l, v, handler', files', objects', nextLoc')
  <2>1. Shape(handler[h]) /\ ~Writes(handler[h], l) /\ \A p \in Uploads : ~HasLoc(files, p, l)
    BY DEF ShapeInv, Settled, SettledIn
  <2>2. Alone(h)
    BY <1>1, <2>1, StepsConfined DEF Confined
  <2>3. ~Writes(handler'[h], l)
    BY <1>0, <1>1, <2>1, WritesStep, WritesError, WritesCall, WritesCut
  <2>4. \A g \in Handlers : ~Writes(handler'[g], l)
    BY <2>2, <2>3 DEF Alone, Settled, SettledIn
  <2>5. \A p \in Uploads : ~HasLoc(files', p, l)
    <3>1. CASE Step(h)
      BY <1>0, <2>1, <3>1, RowsStep
    <3>2. CASE ~Step(h)
      <4>1. files' = files
        BY <1>1, <3>2, CallStart DEF Conflict, Fault, CutShort
      <4> QED BY <2>1, <4>1
    <3> QED BY <3>1, <3>2
  <2>6. \A o \in objects' : o.loc = l /\ o.num = 0 => Content(o) = v
    BY <1>1, <2>1, ObjectsStep DEF Settled, SettledIn
  <2> QED BY <1>0, <2>4, <2>5, <2>6 DEF Settled, SettledIn, Writes
<1>2. CASE Crash
  <2>1. handler' = [h \in Handlers |-> IdleHandler] /\ files' = files /\ objects' = objects
    BY <1>2 DEF Crash
  <2>2. ASSUME NEW h \in Handlers PROVE ~Writes(handler'[h], l)
    <3>1. handler'[h].wr.loc = NoLoc /\ handler'[h].todo = <<>>
      BY <2>1, IdleHandlers DEF IdleRec
    <3>2. TasksOf(handler'[h].todo) = {}
      BY <3>1, TasksOne
    <3> QED BY <1>0, <3>1, <3>2 DEF Writes
  <2> QED BY <1>0, <2>1, <2>2 DEF Settled, SettledIn, Writes
<1>3. CASE UNCHANGED vars
  BY <1>3 DEF vars, Settled
<1> QED BY <1>1, <1>2, <1>3 DEF Next

(* The location of a blob is settled when it can be read. *)
LEMMA BlobSettled ==
    ASSUME StoreInv, ShapeInv, LocInv, InDoubt, StoresHold, NEW p \in Blobs,
           acked[p] \notin {Absent, Unknown}, files[p].loc # NoLoc
    PROVE  Settled(files[p].loc, acked[p])
<1> DEFINE l == files[p].loc
<1>0. p \in Files /\ p \in Paths /\ p \notin Uploads
  BY SwiftPlusAssumption DEF Files
<1>1. files[p] # NoRow
  BY <1>0, HeldRow
<1>2. l \in 1..nextLoc
  <2>1. files[p] \in FileRow(nextLoc, written)
    BY <1>0, <1>1, RowForPath DEF RowFor
  <2>2. l \in 0..nextLoc
    BY <2>1 DEF FileRow, Row
  <2> QED BY <2>2, BoundsNat DEF NoLoc
<1>3. ASSUME NEW h \in Handlers PROVE ~Writes(handler[h], l)
  <2> DEFINE m == handler[h]
  <2> SUFFICES ASSUME Writes(m, l) PROVE FALSE
    OBVIOUS
  <2>1. Shape(m) /\ OwnLocs(m, files) /\ WriterOnly(m, files)
    BY DEF ShapeInv, LocInv, LocsOK
  <2>2. CASE m.wr.loc = l
    <3>1. m.wr.path \in Uploads
      BY <2>2, HandlerTypes
    <3>2. p = m.wr.path
      BY <1>0, <1>1, <2>1, <2>2 DEF WriterOnly, HasLoc
    <3> QED BY <1>0, <3>1, <3>2
  <2>3. ASSUME NEW t \in TasksOf(m.todo), t.do = "upload", t.loc = l PROVE FALSE
    <3>1. m.op = "put"
      <4>1. m.op \in Ops
        BY HandlerTypes DEF HandlerRec
      <4>2. "upload" \in KindsOf(m.op)
        BY <2>1, <2>3 DEF Shape, TaskShape
      <4> QED BY <4>1, <4>2, KindsFacts
    <3>2. l \in UsesOf(m)
      BY <2>3 DEF UsesOf, TaskLocs
    <3>3. p \in RegionOf(m)
      BY <1>0, <1>1, <2>1, <3>2 DEF OwnLocs, HasLoc
    <3> QED BY <1>0, <3>1, <3>3 DEF InDoubt, Doubtful
  <2> QED BY <2>2, <2>3 DEF Writes
<1>4. \A q \in Uploads : ~HasLoc(files, q, l)
  BY <1>0, <1>1, SwiftPlusAssumption DEF HasLoc, LocInv, UniqueLocs, Files
<1>5. \A o \in objects : o.loc = l /\ o.num = 0 => Content(o) = acked[p]
  BY <1>0, HeldObject DEF ObjectAt
<1> QED BY <1>2, <1>3, <1>4, <1>5 DEF Settled, SettledIn

LEMMA BecomeURL ==
    ASSUME ReadInv, URLInv, NEW r \in Readers, NEW rd, Become(r, rd),
           URLOK(rd), UNCHANGED vars
    PROVE  URLInv'
<1>1. ASSUME NEW x \in Readers PROVE URLOK(reader'[x])
  BY DEF URLInv, Become, ReadInv
<1>2. /\ files' = files /\ objects' = objects /\ handler' = handler
      /\ nextLoc' = nextLoc
  BY DEF vars
<1> QED BY <1>1, <1>2 DEF URLInv, URLOK, Settled

(* A reader about whose URL something is to be said. *)
Holder(rd) == rd.op = "url" /\ rd.base \notin {Absent, Unknown}

LEMMA AnswerURL ==
    ASSUME ReadInv, URLInv, NEW r \in Readers, NEW rd \in ReaderRec, NEW res,
           Holder(rd) => rd.off = 0 /\ (~IsError(res) => res = rd.base),
           Answer(r, rd, res), UNCHANGED vars
    PROVE  URLInv'
<1> DEFINE k == [rd EXCEPT !.pc = "done", !.loc = NoLoc, !.parts = <<>>,
                           !.res = res]
<1>1. /\ k.pc = "done" /\ k.res = res /\ k.off = rd.off /\ k.op = rd.op
      /\ k.base = rd.base
  BY DEF ReaderRec
<1>2. Become(r, k)
  BY DEF Answer
<1> HIDE DEF k
<1>3. URLOK(k)
  BY <1>1 DEF URLOK, Holder
<1> QED BY <1>2, <1>3, BecomeURL

LEMMA DeliverURL ==
    ASSUME ReadInv, URLInv, NEW r \in Readers, NEW rd \in ReaderRec,
           NEW ps \in Seq(Part), NEW res \in Seq(Nat),
           Holder(rd) => rd.off = 0 /\ res \o Units(ps) = rd.base,
           Deliver(r, rd, ps, res), UNCHANGED vars
    PROVE  URLInv'
<1>1. CASE ps = <<>>
  <2>1. res \o Units(ps) = res
    <3>1. Units(ps) = <<>>
      BY <1>1, UnitsEmpty
    <3> QED BY <3>1
  <2>2. Answer(r, rd, res)
    BY <1>1 DEF Deliver
  <2> QED BY <2>1, <2>2, AnswerURL
<1>2. CASE ps # <<>>
  <2> DEFINE k == [rd EXCEPT !.pc = "stream", !.parts = ps, !.res = res]
  <2>1. /\ k.pc = "stream" /\ k.parts = ps /\ k.res = res
        /\ k.off = rd.off /\ k.op = rd.op /\ k.base = rd.base
    BY DEF ReaderRec
  <2>2. Become(r, k)
    BY <1>2 DEF Deliver
  <2> HIDE DEF k
  <2>3. URLOK(k)
    BY <2>1 DEF URLOK, Holder
  <2> QED BY <2>2, <2>3, BecomeURL
<1> QED BY <1>1, <1>2

(* GetContent and Reader make no URL. *)
LEMMA ReadURL ==
    ASSUME StoreInv, ReadInv, URLInv, NEW r \in Readers, NEW p \in Files,
           GetContentRow(r, p) \/ \E offset \in Nat : ReaderRow(r, p, offset)
    PROVE  URLInv'
<1>1. PICK offset \in Nat :
        LET rd == Begin("read", p, offset)
        IN  \/ \E res : Answer(r, rd, res)
            \/ \E l : Locate(r, rd, "fetch", l)
  BY DEF GetContentRow, ReaderRow
<1> DEFINE rd == Begin("read", p, offset)
<1>2. UNCHANGED vars
  BY DEF GetContentRow, ReaderRow
<1>3. rd \in ReaderRec /\ rd.op = "read"
  BY BeginType, BeginIdentity
<1> HIDE DEF rd
<1>4. ASSUME NEW res, Answer(r, rd, res) PROVE URLInv'
  BY <1>2, <1>3, <1>4, AnswerURL DEF Holder
<1>5. ASSUME NEW l, Locate(r, rd, "fetch", l) PROVE URLInv'
  <2> DEFINE k == [rd EXCEPT !.pc = "fetch", !.loc = l]
  <2>1. k.op = "read"
    BY <1>3 DEF ReaderRec
  <2>2. Become(r, k)
    BY <1>5 DEF Locate
  <2> HIDE DEF k
  <2>3. URLOK(k)
    BY <2>1 DEF URLOK
  <2> QED BY <1>2, <2>2, <2>3, BecomeURL
<1> QED BY <1>1, <1>4, <1>5 DEF rd

LEMMA MakeURL ==
    ASSUME StoreInv, ShapeInv, LocInv, InDoubt, StoresHold, ReadInv, URLInv,
           NEW r \in Readers, NEW p \in Blobs, NEW method, URLForRow(r, p, method)
    PROVE  URLInv'
<1> DEFINE rd == Begin("url", p, 0)
           fi == files[p]
<1>0. p \in Files /\ UNCHANGED vars
  BY DEF Files, URLForRow
<1>1. rd \in ReaderRec /\ rd.off = 0 /\ rd.op = "url" /\ rd.base = acked[p]
  BY <1>0, BeginType, BeginIdentity
<1> HIDE DEF rd
<1>2. CASE Answer(r, rd, Absent) \/ Answer(r, rd, Unsupported)
  <2>1. IsError(Absent) /\ IsError(Unsupported)
    BY DEF IsError
  <2> QED BY <1>0, <1>1, <1>2, <2>1, AnswerURL
<1>3. CASE fi.loc # NoLoc /\ Locate(r, rd, "url", fi.loc)
  <2> DEFINE k == [rd EXCEPT !.pc = "url", !.loc = fi.loc]
  <2>1. k.pc = "url" /\ k.loc = fi.loc /\ k.off = 0 /\ k.base = acked[p]
    BY <1>1 DEF ReaderRec
  <2>2. Become(r, k)
    BY <1>3 DEF Locate
  <2> HIDE DEF k
  <2>3. acked[p] \notin {Absent, Unknown} => Settled(fi.loc, acked[p])
    BY <1>3, BlobSettled
  <2> HIDE DEF fi
  <2>4. URLOK(k)
    BY <2>1, <2>3 DEF URLOK
  <2> QED BY <1>0, <2>2, <2>4, BecomeURL
<1> QED BY <1>2, <1>3 DEF URLForRow, rd

LEMMA OpenURL ==
    ASSUME StoreInv, ReadInv, URLInv, NEW r \in Readers, SwiftOpen(r)
    PROVE  URLInv'
<1> DEFINE rd == reader[r]
<1>1. UNCHANGED vars /\ rd.pc \in {"fetch", "url"} /\ rd \in ReaderRec /\ rd.off \in Nat
  BY DEF SwiftOpen, ReadInv, ReaderRec
<1>2. Holder(rd) => rd.off = 0 /\ Settled(rd.loc, rd.base)
  BY <1>1 DEF URLInv, URLOK, Holder
<1>3. CASE Answer(r, rd, Unreadable)
  <2>1. IsError(Unreadable)
    BY DEF IsError
  <2> QED BY <1>1, <1>2, <1>3, <2>1, AnswerURL
<1>4. ASSUME NEW o \in ObjectAt(rd.loc, 0),
             Deliver(r, rd, From(o.parts, rd.off), From(o.data, rd.off))
      PROVE  URLInv'
  <2> DEFINE ps == From(o.parts, rd.off)
             res == From(o.data, rd.off)
  <2>1. /\ ps \in Seq(Part) /\ res \in Seq(Nat) /\ Content(o) \in written
        /\ res \o Units(ps) = From(Content(o), rd.off)
    BY <1>1, OpenGets
  <2>2. Holder(rd) => Content(o) = rd.base
    BY <1>2 DEF Settled, SettledIn, ObjectAt
  <2>3. From(Content(o), 0) = Content(o)
    <3>1. Content(o) \in Seq(Nat)
      BY <2>1, WrittenSeq
    <3> QED BY <3>1, FromZero
  <2>4. Deliver(r, rd, ps, res)
    BY <1>4
  <2> HIDE DEF ps, res
  <2>5. Holder(rd) => rd.off = 0 /\ res \o Units(ps) = rd.base
    BY <1>2, <2>1, <2>2, <2>3
  <2> QED BY <1>1, <2>1, <2>4, <2>5, DeliverURL
<1> QED BY <1>3, <1>4 DEF SwiftOpen

LEMMA StreamURL ==
    ASSUME StoreInv, ReadInv, URLInv, NEW r \in Readers, SwiftStream(r)
    PROVE  URLInv'
<1> DEFINE rd == reader[r]
           part == Head(rd.parts)
<1>1. UNCHANGED vars /\ rd.pc = "stream"
  BY DEF SwiftStream
<1>2. /\ rd \in ReaderRec /\ rd.parts \in Seq(Part) /\ rd.parts # <<>>
      /\ rd.res \in Seq(Nat)
  BY <1>1 DEF ReadInv, Received, ReaderRec
<1>3. Holder(rd) => rd.off = 0 /\ rd.res \o Units(rd.parts) = rd.base
  BY <1>1 DEF URLInv, URLOK, Holder
<1>4. CASE Answer(r, rd, Unreadable)
  <2>1. IsError(Unreadable)
    BY DEF IsError
  <2> QED BY <1>1, <1>2, <1>3, <1>4, <2>1, AnswerURL
<1>5. ASSUME PartFound(rd.loc, part), NEW o \in ObjectAt(rd.loc, part.num),
             Deliver(r, rd, Tail(rd.parts), rd.res \o o.data)
      PROVE  URLInv'
  <2>1. /\ Tail(rd.parts) \in Seq(Part) /\ rd.res \o o.data \in Seq(Nat)
        /\ (rd.res \o o.data) \o Units(Tail(rd.parts)) = rd.res \o Units(rd.parts)
    BY <1>2, <1>5, NextPart
  <2> QED BY <1>1, <1>2, <1>3, <1>5, <2>1, DeliverURL
<1> QED BY <1>4, <1>5 DEF SwiftStream

LEMMA NextURLInv ==
    ASSUME StoreInv, ShapeInv, LocInv, InDoubt, StoresHold, ReadInv, URLInv,
           [ReadNext]_readVars
    PROVE  URLInv'
<1>0. [Next]_vars
  BY ReadSteps
<1>1. ASSUME NEW r \in Readers, ReadStep(r)
      PROVE  URLInv'
  <2>1. CASE \/ \E p \in Files : GetContentRow(r, p)
             \/ \E p \in Files, offset \in 0..MaxOffset : ReaderRow(r, p, offset)
    <3>1. 0..MaxOffset \subseteq Nat
      BY SwiftReadsAssumption
    <3> QED BY <2>1, <3>1, ReadURL
  <2>2. CASE ReadDone(r)
    <3>1. UNCHANGED vars /\ Become(r, IdleReader)
      BY <2>2 DEF ReadDone, Become
    <3>2. URLOK(IdleReader)
      BY DEF URLOK, IdleReader
    <3> QED BY <3>1, <3>2, BecomeURL
  <2> QED BY <1>1, <2>1, <2>2, MakeURL, OpenURL, StreamURL DEF ReadStep
<1>2. ASSUME NEW r \in Readers, StoreStep \/ ReadersCrash \/ UNCHANGED readVars
      PROVE  URLOK(reader[r])'
  <2> DEFINE rd == reader[r]
             k == reader'[r]
  <2>1. rd \in ReaderRec /\ URLOK(rd)
    BY DEF ReadInv, URLInv
  <2>2. CASE k = IdleReader
    BY <2>2 DEF URLOK, IdleReader
  <2>3. CASE k \in {rd, Watched(rd)}
    <3>1. /\ k.pc = rd.pc /\ k.op = rd.op /\ k.base = rd.base /\ k.off = rd.off
          /\ k.loc = rd.loc /\ k.res = rd.res /\ k.parts = rd.parts
      BY <2>1, <2>3 DEF Watched, ReaderRec
    <3> HIDE DEF k, rd
    <3>2. Holder(rd) /\ rd.pc = "url" =>
            SettledIn(rd.loc, rd.base, handler', files', objects', nextLoc')
      BY <1>0, <2>1, SettledNext DEF URLOK, Holder
    <3>3. Holder(k) /\ k.pc = "url" =>
            SettledIn(k.loc, k.base, handler', files', objects', nextLoc')
      BY <3>1, <3>2 DEF Holder
    <3>4. /\ Holder(k) => k.off = 0 /\ k.pc \notin {"idle", "fetch"}
          /\ Holder(k) /\ k.pc = "stream" => k.res \o Units(k.parts) = k.base
          /\ Holder(k) /\ k.pc = "done" /\ ~IsError(k.res) => k.res = k.base
      BY <2>1, <3>1 DEF URLOK, Holder
    <3> QED BY <3>3, <3>4 DEF URLOK, Holder, Settled, k
  <2> QED BY <1>2, <2>2, <2>3 DEF StoreStep, ReadersCrash, readVars
<1> QED BY <1>1, <1>2 DEF ReadNext, URLInv

(* Whoever asks Swift for a settled location gets v or nothing. *)
LEMMA SettledReads ==
    ASSUME StoreInv, NEW l, NEW v, Settled(l, v)
    PROVE  SwiftReader(l) \in {v, Unreadable}
<1> DEFINE Object(n) == CHOOSE o \in ObjectAt(l, n) : TRUE
           parts == Object(0).parts
           found == \A i \in DOMAIN parts : PartFound(l, parts[i])
           data == [i \in DOMAIN parts |-> Object(parts[i].num).data]
<1>1. SwiftReader(l) = IF ObjectAt(l, 0) = {} THEN Unreadable
                       ELSE IF ~Object(0).slo THEN Object(0).data
                       ELSE IF found THEN FlattenSeq(data) ELSE Unreadable
  BY DEF SwiftReader
<1>2. ObjectsOK(objects, nextLoc, written)
  BY DEF StoreInv
<1>3. CASE ObjectAt(l, 0) = {}
  BY <1>1, <1>3
<1>4. CASE ObjectAt(l, 0) # {}
  <2>1. Object(0) \in ObjectAt(l, 0)
    BY <1>4
  <2>2. /\ Object(0) \in objects /\ Object(0).num = 0
        /\ Content(Object(0)) = v
    <3> HIDE DEF Object
    <3> QED BY <2>1 DEF ObjectAt, Settled, SettledIn
  <2>3. CASE ~Object(0).slo
    BY <1>1, <1>4, <2>2, <2>3 DEF Content
  <2>4. CASE Object(0).slo /\ ~found
    BY <1>1, <1>4, <2>4
  <2>5. CASE Object(0).slo /\ found
    <3>1. parts \in Seq(Part) /\ Units(parts) = v
      BY <1>2, <2>2, <2>5 DEF ObjectsOK, ObjectRec, Content
    <3>2. ASSUME NEW i \in DOMAIN parts
          PROVE  Object(parts[i].num).data = <<parts[i].unit>>
      <4>1. PICK o \in ObjectAt(l, parts[i].num) : o.data = <<parts[i].unit>>
        BY <2>5 DEF PartFound
      <4>2. Object(parts[i].num) \in ObjectAt(l, parts[i].num)
        BY <4>1
      <4>3. Object(parts[i].num) = o
        <5> HIDE DEF Object
        <5> QED BY <1>2, <4>1, <4>2 DEF ObjectAt, ObjectsOK
      <4> QED BY <4>1, <4>3
    <3> DEFINE u == Units(parts)
    <3> HIDE DEF Object, parts
    <3>3. /\ u \in Seq(Nat) /\ Len(u) = Len(parts) /\ DOMAIN parts = 1..Len(u)
          /\ \A i \in 1..Len(u) : u[i] = parts[i].unit
      BY <3>1, UnitsIs
    <3> HIDE DEF u
    <3>4. data = [i \in 1..Len(u) |-> <<u[i]>>]
      BY <3>2, <3>3
    <3>5. FlattenSeq(data) = u
      BY <3>3, <3>4, FlattenSingletons
    <3> QED BY <1>1, <1>4, <2>5, <3>1, <3>5 DEF u, parts
  <2> QED BY <2>3, <2>4, <2>5
<1> QED BY <1>3, <1>4

(* A temporary URL that URLFor has made for a blob whose contents were      *)
(* acknowledged delivers those contents or nothing, for as long as somebody *)
(* holds it: whatever is moved, overwritten or deleted in the meantime, and *)
(* through failures and crashes, nobody writes to its location again.  The  *)
(* assumptions are those of UndisturbedReadsAreRight without the key.       *)
THEOREM URLsKeepTheirMeaning ==
    Exclusive /\ (\A p \in Files : Safe(p, MaxFaults)) =>
        (ReadSpec => []URLKeepsMeaning)
<1> SUFFICES ASSUME Exclusive, \A p \in Files : Safe(p, MaxFaults)
             PROVE  ReadSpec => []URLKeepsMeaning
  OBVIOUS
<1>1. ReadInit => URLInv
  BY DEF ReadInit, URLInv, URLOK, IdleReader
<1>2. TreesInv /\ AckedInv /\ ReadInv /\ URLInv /\ [ReadNext]_readVars => URLInv'
  <2> SUFFICES ASSUME TreesInv, AckedInv, ReadInv, URLInv, [ReadNext]_readVars
               PROVE  URLInv'
    OBVIOUS
  <2>1. StoreInv /\ ShapeInv /\ LocInv /\ InDoubt
    BY DEF TreesInv, ExclusiveInv, AckedInv
  <2>2. StoresHold
    BY <2>1, HeldInStores
  <2> QED BY <2>1, <2>2, NextURLInv
<1>3. StoreInv /\ URLInv => URLKeepsMeaning
  BY SettledReads DEF URLInv, URLOK, URLKeepsMeaning, Done
<1>4. ReadSpec => [](TreesInv /\ AckedInv)
  <2>1. Spec => []TreesInv
    BY TreesStayWhole
  <2>2. Spec => []AckedInv
    BY PromisesAreKept
  <2> QED BY <2>1, <2>2, ReadersOnlyRead, PTL
<1> QED BY <1>1, <1>2, <1>3, <1>4, ReadsAreReceived, ReadersDoNoHarm, PTL DEF ReadSpec
=============================================================================
