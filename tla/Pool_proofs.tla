---------------------------- MODULE Pool_proofs ----------------------------
(***************************************************************************)
(* Proofs about Pool, for any threads, any finite set of buffers and any   *)
(* sizes.  A buffer is stored, carried by a thread inside get_msg or a     *)
(* drop, or live in a message.  The invariant says that it is in one of    *)
(* these places and in no other, and that a size once checked is kept.     *)
(***************************************************************************)
EXTENDS Pool, FiniteSetTheorems, SequenceTheorems, TLAPS

Stored(b) == \E i \in 1 .. Len(vec) : vec[i] = b
Carried(b) == \E t \in Thread : box[t] = b
Live(b) == \E m \in msgs : m.buf = b

\* A thread carries a box exactly between the two halves of get_msg or drop.
Carrying == \A t \in Thread : box[t] \in Buf <=> pc[t] \in {"build", "ret"}

StoredOnce == \A i, j \in 1 .. Len(vec) : vec[i] = vec[j] => i = j
CarriedOnce == \A t, u \in Thread : box[t] \in Buf /\ box[t] = box[u] => t = u
LiveOnce == \A m, n \in msgs : m.buf = n.buf => m = n

Apart == \A b \in Buf : /\ ~(Stored(b) /\ Carried(b))
                        /\ ~(Stored(b) /\ Live(b))
                        /\ ~(Carried(b) /\ Live(b))
Kept == \A b \in Buf : Stored(b) \/ Carried(b) \/ Live(b)

Checked == \A t \in Thread : pc[t] \in {"get", "build"} => fits(req[t])

IInv == /\ TypeOK /\ Carrying
        /\ StoredOnce /\ CarriedOnce /\ LiveOnce
        /\ Apart /\ Kept
        /\ Checked /\ DerefInBounds

-----------------------------------------------------------------------------
(* The Vec *)

LEMMA PopFacts ==
    ASSUME NEW S, NEW s \in Seq(S), s # <<>>
    PROVE  /\ SubSeq(s, 1, Len(s) - 1) \in Seq(S)
           /\ Len(SubSeq(s, 1, Len(s) - 1)) = Len(s) - 1
           /\ Len(s) \in Nat \ {0}
           /\ \A i \in 1 .. Len(s) - 1 : SubSeq(s, 1, Len(s) - 1)[i] = s[i]
           /\ s[Len(s)] \in S
<1>1. PICK n \in Nat : n = Len(s) - 1
  OBVIOUS
<1>2. Len(s) = n + 1 /\ \A i \in 1 .. n + 1 : s[i] \in S
  BY <1>1
<1>3. /\ SubSeq(s, 1, n) \in Seq(S)
      /\ Len(SubSeq(s, 1, n)) = IF 1 <= n THEN n - 1 + 1 ELSE 0
      /\ \A i \in 1 .. n - 1 + 1 : SubSeq(s, 1, n)[i] = s[1 + i - 1]
  BY <1>2, SubSeqProperties
<1>4. Len(SubSeq(s, 1, n)) = n
  BY <1>3
<1>5. \A i \in 1 .. n : i \in 1 .. n - 1 + 1 /\ 1 + i - 1 = i
  OBVIOUS
<1>6. \A i \in 1 .. n : SubSeq(s, 1, n)[i] = s[i]
  <2> TAKE i \in 1 .. n
  <2> QED
    BY <1>3, <1>5
<1> QED
  BY <1>1, <1>2, <1>3, <1>4, <1>6

LEMMA PushFacts ==
    ASSUME NEW S, NEW s \in Seq(S), NEW x \in S
    PROVE  /\ Append(s, x) \in Seq(S)
           /\ Len(Append(s, x)) = Len(s) + 1
           /\ Len(s) \in Nat
           /\ \A i \in 1 .. Len(s) : Append(s, x)[i] = s[i]
           /\ Append(s, x)[Len(s) + 1] = x
OBVIOUS

\* get takes the buffer it returns, and no other, out of the store.
LEMMA GetMoves ==
    ASSUME TypeOK, StoredOnce, NEW b, get(b)
    PROVE  /\ b \in Buf /\ vec' \in Seq(Buf) /\ StoredOnce'
           /\ Stored(b) /\ ~Stored(b)'
           /\ \A c : c # b => (Stored(c)' <=> Stored(c))
<1>1. vec \in Seq(Buf) /\ vec # <<>> /\ b = vec[Len(vec)]
      /\ vec' = SubSeq(vec, 1, Len(vec) - 1)
  BY DEF TypeOK, get
<1>2. /\ vec' \in Seq(Buf) /\ Len(vec') = Len(vec) - 1 /\ Len(vec) \in Nat \ {0}
      /\ \A i \in 1 .. Len(vec) - 1 : vec'[i] = vec[i]
      /\ b \in Buf
  BY <1>1, PopFacts
<1>3. StoredOnce'
  BY <1>2 DEF StoredOnce
<1>4. Stored(b)
  BY <1>1, <1>2 DEF Stored
<1>5. ~Stored(b)'
  BY <1>1, <1>2 DEF Stored, StoredOnce
<1>6. \A c : c # b => (Stored(c)' <=> Stored(c))
  BY <1>1, <1>2 DEF Stored
<1> QED
  BY <1>2, <1>3, <1>4, <1>5, <1>6

\* ret puts back the buffer it is given, and no other.
LEMMA RetMoves ==
    ASSUME TypeOK, StoredOnce, NEW b \in Buf, ~Stored(b), ret(b)
    PROVE  /\ vec' \in Seq(Buf) /\ StoredOnce' /\ Stored(b)'
           /\ \A c : c # b => (Stored(c)' <=> Stored(c))
<1>1. vec \in Seq(Buf) /\ vec' = Append(vec, b)
  BY DEF TypeOK, ret
<1>2. /\ vec' \in Seq(Buf) /\ Len(vec') = Len(vec) + 1 /\ Len(vec) \in Nat
      /\ \A i \in 1 .. Len(vec) : vec'[i] = vec[i]
      /\ vec'[Len(vec) + 1] = b
  BY <1>1, PushFacts
<1>3. StoredOnce'
  BY <1>2 DEF StoredOnce, Stored
<1>4. Stored(b)'
  BY <1>2 DEF Stored
<1>5. \A c : c # b => (Stored(c)' <=> Stored(c))
  BY <1>2 DEF Stored
<1> QED
  BY <1>2, <1>3, <1>4, <1>5

-----------------------------------------------------------------------------
(* Initial states *)

LEMMA NewInv == new => IInv
<1> SUFFICES ASSUME new PROVE IInv
  OBVIOUS
<1> DEFINE n == Cardinality(Buf)
<1>1. n \in Nat
  BY BufFinite, FS_CardinalityType
<1>2. vec \in [1 .. n -> Buf]
      /\ (\A i, j \in 1 .. n : vec[i] = vec[j] => i = j)
      /\ (\A b \in Buf : \E i \in 1 .. n : vec[i] = b)
  <2>1. vec \in Injection(1 .. n, Buf) /\ vec \in Surjection(1 .. n, Buf)
    BY DEF new, from_buffers, Bijection
  <2>2. vec \in [1 .. n -> Buf] /\ IsInjective(vec)
    BY <2>1 DEF Injection
  <2>3. \A b \in Buf : \E i \in 1 .. n : vec[i] = b
    BY <2>1 DEF Surjection
  <2> QED
    BY <2>2, <2>3 DEF IsInjective
<1>3. vec \in Seq(Buf) /\ Len(vec) = n
  BY <1>1, <1>2
<1>4. pc = [t \in Thread |-> "idle"] /\ req = [t \in Thread |-> 0]
      /\ box = [t \in Thread |-> NoBuf] /\ msgs = {}
  BY DEF new
<1>5. TypeOK
  BY <1>3, <1>4, SizesAreNat DEF TypeOK
<1>6. Carrying /\ CarriedOnce /\ LiveOnce /\ Checked /\ DerefInBounds
  BY <1>4, NoBufIsNoBuf DEF Carrying, CarriedOnce, LiveOnce, Checked, DerefInBounds
<1>7. StoredOnce
  BY <1>2, <1>3 DEF StoredOnce
<1>8. \A b \in Buf : Stored(b) /\ ~Carried(b) /\ ~Live(b)
  BY <1>2, <1>3, <1>4, NoBufIsNoBuf DEF Stored, Carried, Live
<1> QED
  BY <1>5, <1>6, <1>7, <1>8 DEF IInv, Apart, Kept

-----------------------------------------------------------------------------
(* Steps *)

LEMMA GetMsgInv == ASSUME IInv, NEW t \in Thread, GetMsg(t) PROVE IInv'
<1> USE DEF IInv
<1>1. PICK n \in 0 .. MaxRequest :
          /\ pc[t] = "idle" /\ fits(n)
          /\ pc' = [pc EXCEPT ![t] = "get"] /\ req' = [req EXCEPT ![t] = n]
          /\ UNCHANGED <<vec, box, msgs>>
  BY DEF GetMsg
<1>2. TypeOK'
  BY <1>1 DEF TypeOK
<1>3. Carrying'
  BY <1>1 DEF Carrying, TypeOK
<1>4. StoredOnce' /\ CarriedOnce' /\ LiveOnce' /\ Apart' /\ Kept' /\ DerefInBounds'
  BY <1>1 DEF StoredOnce, CarriedOnce, LiveOnce, Apart, Kept, Stored, Carried, Live, DerefInBounds
<1>5. Checked'
  BY <1>1 DEF Checked, TypeOK, fits
<1> QED
  BY <1>2, <1>3, <1>4, <1>5

LEMMA StoreGetInv == ASSUME IInv, NEW t \in Thread, StoreGet(t) PROVE IInv'
<1> USE DEF IInv
<1>1. PICK b \in Buf : /\ pc[t] = "get" /\ get(b)
                       /\ box' = [box EXCEPT ![t] = b] /\ pc' = [pc EXCEPT ![t] = "build"]
                       /\ req' = req /\ msgs' = msgs
  BY DEF StoreGet
<1>2. /\ vec' \in Seq(Buf) /\ StoredOnce' /\ Stored(b) /\ ~Stored(b)'
      /\ \A c : c # b => (Stored(c)' <=> Stored(c))
  BY <1>1, GetMoves
<1>3. box[t] \notin Buf /\ ~Carried(b) /\ ~Live(b)
  BY <1>1, <1>2 DEF Carrying, Apart
<1>4. \A c \in Buf : Carried(c)' <=> (c = b \/ Carried(c))
  BY <1>1, <1>3 DEF Carried, TypeOK
<1>5. \A c \in Buf : Live(c)' <=> Live(c)
  BY <1>1 DEF Live
<1>6. TypeOK'
  BY <1>1, <1>2 DEF TypeOK
<1>7. Carrying'
  BY <1>1 DEF Carrying, TypeOK
<1>8. CarriedOnce'
  BY <1>1, <1>3 DEF CarriedOnce, Carried, TypeOK
<1>9. LiveOnce' /\ DerefInBounds'
  BY <1>1 DEF LiveOnce, DerefInBounds
<1>10. Apart' /\ Kept'
  BY <1>2, <1>3, <1>4, <1>5 DEF Apart, Kept
<1>11. Checked'
  BY <1>1 DEF Checked, TypeOK, fits
<1> QED
  BY <1>2, <1>6, <1>7, <1>8, <1>9, <1>10, <1>11

LEMMA NoMsgsInv == ASSUME IInv, NEW t \in Thread, NoMsgs(t) PROVE IInv'
<1> USE DEF IInv
<1>1. /\ pc[t] = "get" /\ pc' = [pc EXCEPT ![t] = "idle"]
      /\ UNCHANGED <<vec, req, box, msgs>>
  BY DEF NoMsgs
<1>2. TypeOK'
  BY <1>1 DEF TypeOK
<1>3. Carrying' /\ Checked'
  BY <1>1 DEF Carrying, Checked, TypeOK, fits
<1>4. StoredOnce' /\ CarriedOnce' /\ LiveOnce' /\ Apart' /\ Kept' /\ DerefInBounds'
  BY <1>1 DEF StoredOnce, CarriedOnce, LiveOnce, Apart, Kept, Stored, Carried, Live, DerefInBounds
<1> QED
  BY <1>2, <1>3, <1>4

LEMMA BuildInv == ASSUME IInv, NEW t \in Thread, Build(t) PROVE IInv'
<1> USE DEF IInv
<1> DEFINE new_msg == [buf |-> box[t], len |-> req[t], owner |-> t]
<1>1. /\ pc[t] = "build" /\ msgs' = msgs \cup {new_msg}
      /\ box' = [box EXCEPT ![t] = NoBuf] /\ pc' = [pc EXCEPT ![t] = "idle"]
      /\ vec' = vec /\ req' = req
  BY DEF Build
<1>2. box[t] \in Buf /\ req[t] \in 0 .. MaxRequest /\ fits(req[t])
  BY <1>1 DEF Carrying, Checked, TypeOK
<1>3. Carried(box[t]) /\ ~Stored(box[t]) /\ ~Live(box[t])
  BY <1>2 DEF Carried, Apart
<1>4. new_msg.buf = box[t] /\ new_msg.len = req[t] /\ new_msg \in PooledMsg
  BY <1>2 DEF PooledMsg
<1>5. \A c \in Buf : Carried(c)' <=> (c # box[t] /\ Carried(c))
  BY <1>1, <1>2, NoBufIsNoBuf DEF Carried, CarriedOnce, TypeOK
<1>6. \A c \in Buf : Live(c)' <=> (c = box[t] \/ Live(c))
  BY <1>1, <1>4 DEF Live
<1>7. \A c \in Buf : Stored(c)' <=> Stored(c)
  BY <1>1 DEF Stored
<1>8. TypeOK'
  BY <1>1, <1>4 DEF TypeOK
<1>9. Carrying' /\ Checked'
  BY <1>1, NoBufIsNoBuf DEF Carrying, Checked, TypeOK, fits
<1>10. StoredOnce' /\ CarriedOnce'
  BY <1>1, NoBufIsNoBuf DEF StoredOnce, CarriedOnce, TypeOK
<1>11. LiveOnce'
  BY <1>1, <1>3, <1>4 DEF LiveOnce, Live
<1>12. Apart' /\ Kept'
  BY <1>3, <1>5, <1>6, <1>7 DEF Apart, Kept
<1>13. DerefInBounds'
  BY <1>1, <1>2, <1>4 DEF DerefInBounds, fits
<1> QED
  BY <1>8, <1>9, <1>10, <1>11, <1>12, <1>13

LEMMA GiveInv == ASSUME IInv, NEW t \in Thread, NEW u \in Thread, Give(t, u) PROVE IInv'
<1> USE DEF IInv
<1>1. PICK m \in msgs : /\ msgs' = (msgs \ {m}) \cup {[m EXCEPT !.owner = u]}
                        /\ UNCHANGED <<vec, pc, req, box>>
  BY DEF Give
<1> DEFINE given == [m EXCEPT !.owner = u]
<1>2. m \in PooledMsg
  BY DEF TypeOK
<1>3. given \in PooledMsg /\ given.buf = m.buf /\ given.len = m.len
  BY <1>2 DEF PooledMsg
<1>4. \A c : (Live(c)' <=> Live(c)) /\ (Stored(c)' <=> Stored(c)) /\ (Carried(c)' <=> Carried(c))
  BY <1>1, <1>3 DEF Live, Stored, Carried
<1>5. TypeOK'
  BY <1>1, <1>3 DEF TypeOK
<1>6. Carrying' /\ Checked' /\ StoredOnce' /\ CarriedOnce'
  BY <1>1 DEF Carrying, Checked, StoredOnce, CarriedOnce, fits
<1>7. LiveOnce' /\ DerefInBounds'
  BY <1>1, <1>3 DEF LiveOnce, DerefInBounds
<1>8. Apart' /\ Kept'
  BY <1>4 DEF Apart, Kept
<1> QED
  BY <1>5, <1>6, <1>7, <1>8

LEMMA DropTakeInv == ASSUME IInv, NEW t \in Thread, DropTake(t) PROVE IInv'
<1> USE DEF IInv
<1>1. PICK m \in msgs : /\ pc[t] = "idle" /\ msgs' = msgs \ {m}
                        /\ box' = [box EXCEPT ![t] = m.buf] /\ pc' = [pc EXCEPT ![t] = "ret"]
                        /\ vec' = vec /\ req' = req
  BY DEF DropTake
<1>2. m.buf \in Buf /\ Live(m.buf)
  BY DEF TypeOK, PooledMsg, Live
<1>3. box[t] \notin Buf /\ ~Carried(m.buf) /\ ~Stored(m.buf)
  BY <1>1, <1>2 DEF Carrying, Apart
<1>4. \A c \in Buf : Carried(c)' <=> (c = m.buf \/ Carried(c))
  BY <1>1, <1>3 DEF Carried, TypeOK
<1>5. \A c \in Buf : Live(c)' <=> (c # m.buf /\ Live(c))
  BY <1>1 DEF Live, LiveOnce
<1>6. \A c \in Buf : Stored(c)' <=> Stored(c)
  BY <1>1 DEF Stored
<1>7. TypeOK'
  BY <1>1, <1>2 DEF TypeOK
<1>8. Carrying' /\ Checked'
  BY <1>1, <1>2 DEF Carrying, Checked, TypeOK, fits
<1>9. CarriedOnce'
  BY <1>1, <1>3 DEF CarriedOnce, Carried, TypeOK
<1>10. StoredOnce' /\ LiveOnce' /\ DerefInBounds'
  BY <1>1 DEF StoredOnce, LiveOnce, DerefInBounds
<1>11. Apart' /\ Kept'
  BY <1>2, <1>3, <1>4, <1>5, <1>6 DEF Apart, Kept
<1> QED
  BY <1>7, <1>8, <1>9, <1>10, <1>11

LEMMA DropRetInv == ASSUME IInv, NEW t \in Thread, DropRet(t) PROVE IInv'
<1> USE DEF IInv
<1>1. /\ pc[t] = "ret" /\ ret(box[t])
      /\ box' = [box EXCEPT ![t] = NoBuf] /\ pc' = [pc EXCEPT ![t] = "idle"]
      /\ req' = req /\ msgs' = msgs
  BY DEF DropRet
<1>2. PICK b \in Buf : b = box[t]
  BY <1>1 DEF Carrying
<1>3. Carried(b) /\ ~Stored(b) /\ ~Live(b)
  BY <1>2 DEF Carried, Apart
<1>4. /\ vec' \in Seq(Buf) /\ StoredOnce' /\ Stored(b)'
      /\ \A c : c # b => (Stored(c)' <=> Stored(c))
  BY <1>1, <1>2, <1>3, RetMoves
<1>5. \A c \in Buf : Carried(c)' <=> (c # b /\ Carried(c))
  BY <1>1, <1>2, NoBufIsNoBuf DEF Carried, CarriedOnce, TypeOK
<1>6. \A c \in Buf : Live(c)' <=> Live(c)
  BY <1>1 DEF Live
<1>7. TypeOK'
  BY <1>1, <1>4 DEF TypeOK
<1>8. Carrying' /\ Checked'
  BY <1>1, NoBufIsNoBuf DEF Carrying, Checked, TypeOK, fits
<1>9. CarriedOnce'
  BY <1>1, NoBufIsNoBuf DEF CarriedOnce, TypeOK
<1>10. LiveOnce' /\ DerefInBounds'
  BY <1>1 DEF LiveOnce, DerefInBounds
<1>11. Apart' /\ Kept'
  BY <1>3, <1>4, <1>5, <1>6 DEF Apart, Kept
<1> QED
  BY <1>4, <1>7, <1>8, <1>9, <1>10, <1>11

LEMMA StepInv == IInv /\ [Next]_vars => IInv'
<1> SUFFICES ASSUME IInv, [Next]_vars PROVE IInv'
  OBVIOUS
<1>1. CASE UNCHANGED vars
  BY <1>1 DEF vars, IInv, TypeOK, Carrying, StoredOnce, CarriedOnce, LiveOnce, Apart, Kept,
              Stored, Carried, Live, Checked, DerefInBounds, fits
<1>2. CASE Next
  <2>1. PICK t \in Thread : \/ GetMsg(t) \/ StoreGet(t) \/ NoMsgs(t) \/ Build(t)
                            \/ DropTake(t) \/ DropRet(t)
                            \/ \E u \in Thread : Give(t, u)
    BY <1>2 DEF Next
  <2> QED
    BY <2>1, GetMsgInv, StoreGetInv, NoMsgsInv, BuildInv, DropTakeInv, DropRetInv, GiveInv
<1> QED
  BY <1>1, <1>2

LEMMA InvAlways == Spec => []IInv
  BY NewInv, StepInv, PTL DEF Spec

-----------------------------------------------------------------------------
(* What follows from the invariant *)

\* The variables of the pool keep their types.
THEOREM TypeCorrect == Spec => []TypeOK
<1>1. IInv => TypeOK
  BY DEF IInv
<1> QED
  BY <1>1, InvAlways, PTL

\* Every buffer is in the store, with a thread or in a message, and in one
\* place of these only, however gets, hand-overs and drops interleave.
THEOREM BuffersHaveOneOwner == Spec => []OneOwner
<1>1. ASSUME IInv, NEW b \in Buf PROVE \E p \in Places(b) : Places(b) = {p}
  <2> USE <1>1 DEF IInv
  <2>1. vec \in Seq(Buf) /\ DOMAIN vec = 1 .. Len(vec)
    BY DEF TypeOK
  <2> DEFINE stored == {<<"vec", i>> : i \in {j \in DOMAIN vec : vec[j] = b}}
             carried == {<<"box", t>> : t \in {u \in Thread : box[u] = b}}
             live == {<<"msg", m>> : m \in {n \in msgs : n.buf = b}}
  <2>2. Places(b) = stored \cup carried \cup live
    BY DEF Places
  <2>3. (stored # {} <=> Stored(b)) /\ (carried # {} <=> Carried(b)) /\ (live # {} <=> Live(b))
    BY <2>1 DEF Stored, Carried, Live
  <2>4. \A p, q \in stored : p = q
    BY <2>1 DEF StoredOnce
  <2>5. \A p, q \in carried : p = q
    BY DEF CarriedOnce
  <2>6. \A p, q \in live : p = q
    BY DEF LiveOnce
  <2>7. Stored(b) \/ Carried(b) \/ Live(b)
    BY DEF Kept
  <2>8. ~(Stored(b) /\ Carried(b)) /\ ~(Stored(b) /\ Live(b)) /\ ~(Carried(b) /\ Live(b))
    BY DEF Apart
  <2> HIDE DEF stored, carried, live
  <2> QED
    BY <2>2, <2>3, <2>4, <2>5, <2>6, <2>7, <2>8
<1>2. IInv => OneOwner
  BY <1>1 DEF OneOwner
<1> QED
  BY <1>2, InvAlways, PTL

\* A message's length, checked before its buffer was fetched, stays within
\* the buffer whatever thread dereferences it.
THEOREM LengthsInBounds == Spec => []DerefInBounds
<1>1. IInv => DerefInBounds
  BY DEF IInv
<1> QED
  BY <1>1, InvAlways, PTL

\* A get_msg answers NoMsgs only if each buffer is live in a message or in
\* the hands of another thread at that moment.
THEOREM NoMsgsOnlyWhenAllOut == Spec => NoMsgsMeansAllOut
<1> DEFINE AllOut(t) == \A b \in Buf : \/ \E m \in msgs : m.buf = b
                                       \/ \E u \in Thread \ {t} : box[u] = b
<1>1. ASSUME IInv, Next, NEW t \in Thread, pc[t] = "get", pc'[t] = "idle"
      PROVE  AllOut(t)
  <2> USE DEF IInv
  <2>1. PICK s \in Thread : \/ GetMsg(s) \/ StoreGet(s) \/ NoMsgs(s) \/ Build(s)
                            \/ DropTake(s) \/ DropRet(s)
                            \/ \E u \in Thread : Give(s, u)
    BY <1>1 DEF Next
  <2>2. pc \in [Thread -> {"idle", "get", "build", "ret"}] /\ vec \in Seq(Buf)
    BY <1>1 DEF TypeOK
  <2>3. NoMsgs(t)
    BY <1>1, <2>1, <2>2
    DEF GetMsg, StoreGet, NoMsgs, Build, DropTake, DropRet, Give
  <2>4. \A b : ~Stored(b)
    BY <2>2, <2>3 DEF NoMsgs, len, Stored
  <2>5. box[t] \notin Buf
    BY <1>1 DEF Carrying
  <2> QED
    BY <1>1, <2>4, <2>5 DEF Kept, Carried, Live
<1>2. ASSUME IInv, [Next]_vars
      PROVE  [\A t \in Thread : pc[t] = "get" /\ pc'[t] = "idle" => AllOut(t)]_vars
  BY <1>1, <1>2
<1>3. IInv /\ [Next]_vars =>
          [\A t \in Thread : pc[t] = "get" /\ pc'[t] = "idle" =>
             \A b \in Buf : \/ \E m \in msgs : m.buf = b
                            \/ \E u \in Thread \ {t} : box[u] = b]_vars
  BY <1>2
<1> QED
  BY <1>3, InvAlways, PTL DEF Spec, NoMsgsMeansAllOut

-----------------------------------------------------------------------------
(* The pool implements the store's contract *)

LEMMA RangeIsStored == ASSUME vec \in Seq(Buf) PROVE \A b : b \in Range(vec) <=> Stored(b)
  BY DEF Range, Stored

\* The pool takes from its store, and returns to it, one buffer at a time
\* and never one that is not out, for any number of threads.
THEOREM ImplementsStore == Spec => StoreContract
<1>1. new => Store!from_buffers
  <2> SUFFICES ASSUME new PROVE Range(vec) = Buf
    BY DEF Store!from_buffers
  <2>1. vec \in [1 .. Cardinality(Buf) -> Buf]
        /\ \A b \in Buf : \E i \in 1 .. Cardinality(Buf) : vec[i] = b
    BY DEF new, from_buffers, Bijection, Injection, Surjection
  <2> QED
    BY <2>1 DEF Range
<1>2. ASSUME IInv, [Next]_vars PROVE [Store!Next]_(Range(vec))
  <2> USE DEF IInv
  <2>1. CASE UNCHANGED vars
    BY <2>1 DEF vars, Range
  <2>2. CASE \E t \in Thread : \/ GetMsg(t) \/ NoMsgs(t) \/ Build(t) \/ DropTake(t)
                               \/ \E u \in Thread : Give(t, u)
    BY <2>2 DEF GetMsg, NoMsgs, Build, DropTake, Give, Range
  <2>3. ASSUME NEW t \in Thread, StoreGet(t) PROVE Store!Next
    <3>1. PICK b \in Buf : get(b)
      BY <2>3 DEF StoreGet
    <3>2. /\ vec' \in Seq(Buf) /\ Stored(b) /\ ~Stored(b)'
          /\ \A c : c # b => (Stored(c)' <=> Stored(c))
      BY <1>2, <3>1, GetMoves
    <3>3. \A c : (c \in Range(vec) <=> Stored(c)) /\ (c \in Range(vec)' <=> Stored(c)')
      BY <1>2, <3>2 DEF TypeOK, Range, Stored
    <3>4. Store!get(b)
      BY <3>2, <3>3 DEF Store!get
    <3> QED
      BY <3>4 DEF Store!Next
  <2>4. ASSUME NEW t \in Thread, DropRet(t) PROVE Store!Next
    <3>1. PICK b \in Buf : b = box[t] /\ ret(b)
      BY <1>2, <2>4 DEF DropRet, Carrying
    <3>2. ~Stored(b)
      BY <1>2, <3>1 DEF Apart, Carried
    <3>3. /\ vec' \in Seq(Buf) /\ Stored(b)'
          /\ \A c : c # b => (Stored(c)' <=> Stored(c))
      BY <1>2, <3>1, <3>2, RetMoves
    <3>4. \A c : (c \in Range(vec) <=> Stored(c)) /\ (c \in Range(vec)' <=> Stored(c)')
      BY <1>2, <3>3 DEF TypeOK, Range, Stored
    <3>5. Store!ret(b)
      BY <3>2, <3>3, <3>4 DEF Store!ret
    <3> QED
      BY <3>5 DEF Store!Next
  <2> QED
    BY <1>2, <2>1, <2>2, <2>3, <2>4 DEF Next
<1>3. IInv /\ [Next]_vars => [Store!Next]_(Range(vec))
  BY <1>2
<1> QED
  BY <1>1, <1>3, InvAlways, PTL DEF Spec, StoreContract, Store!Spec

=============================================================================
