------------------------ MODULE NetdiskClientProofs -------------------------
(***************************************************************************)
(* Proofs about the two ends of a netdisk connection.  First PduStream,    *)
(* for messages of any lengths, in any number, cut anywhere: the stream    *)
(* has no gap, and what is handled is what was sent, in order.  Then       *)
(* NetdiskFiles, for any users, names and trees: the file system stays a   *)
(* tree, what a client asks for and shows, and what accepting a share      *)
(* leaves.  The two share no state.                                        *)
(***************************************************************************)
EXTENDS PduStream, FilesHistory, SequenceTheorems, FiniteSetTheorems, WellFoundedInduction,
        TLAPS

-----------------------------------------------------------------------------
(* PduStream.                                                              *)

Byte == Nat \X Nat

\* A byte of a message, and what it is made of.
At(m, k) == <<m, k>>
Of(b) == b[1]
Place(b) == b[2]

\* What WholeMessages and OneAfterTheOther say of the rest of the stream, of
\* any sequence r of bytes that begins after message f of the lengths lens.
Whole(r, lens) ==
    \A p \in 1..Len(r) :
        /\ Of(r[p]) \in 1..Len(lens) /\ Place(r[p]) \in 1..lens[Of(r[p])]
        /\ p - Place(r[p]) >= 0 /\ p - Place(r[p]) + lens[Of(r[p])] <= Len(r)
        /\ \A i \in 1..lens[Of(r[p])] : r[p - Place(r[p]) + i] = At(Of(r[p]), i)

FromTo(r, lens, f) ==
    /\ f \in 0..Len(lens)
    /\ r = <<>> <=> f = Len(lens)
    /\ r # <<>> =>
           r[1] = At(f + 1, 1) /\ r[Len(r)] = At(Len(lens), lens[Len(lens)])

InOrder(r) ==
    \A p, q \in 1..Len(r) :
        /\ p <= q => Of(r[p]) <= Of(r[q])
        /\ q = p + 1 =>
               \/ r[q] = At(Of(r[p]), Place(r[p]) + 1)
               \/ r[q] = At(Of(r[p]) + 1, 1)

Unbroken(r, lens, f) == Whole(r, lens) /\ FromTo(r, lens, f) /\ InOrder(r)

\* Message m has length len.
IsLength(len, lens, m) == lens[m] = len

\* t is r with message m, of length len, after it; t is r without the first
\* len bytes.
Longer(t, r, m, len) ==
    /\ Len(t) = Len(r) + len
    /\ \A p \in 1..Len(r) : t[p] = r[p]
    /\ \A p \in Len(r) + 1 .. Len(r) + len : t[p] = At(m, p - Len(r))

Shorter(t, r, len) ==
    /\ Len(t) = Len(r) - len
    /\ \A p \in 1..Len(t) : t[p] = r[p + len]

\* The rest of the stream is in whole bytes, and while a dialog is open the
\* message it is about is complete in the buffer and has been handed over.
PiecesOK ==
    /\ wire \in Seq(Byte) /\ arrived \in Seq(Byte) /\ buffer \in Seq(Byte)
    /\ handled \in Seq(Nat)
    /\ pc = "dialog" => handled # <<>> /\ Complete

\* The inductive invariant.
StreamInv ==
    /\ end \in {"server", "client"} /\ hooked \in BOOLEAN
    /\ pc \in {"idle", "loop", "dialog"}
    /\ uiPDULen \in Seq(Lengths)
    /\ PiecesOK
    /\ Unbroken(rest, uiPDULen, Finished)

-----------------------------------------------------------------------------
\* Messages have a length.
LEMMA LengthOf ==
    ASSUME NEW lens \in Seq(Lengths), NEW m \in 1..Len(lens)
    PROVE  lens[m] \in Nat /\ lens[m] >= 1
<1>1. lens[m] \in Lengths
  OBVIOUS
<1>2. \A l \in Lengths : l \in Nat /\ l >= 1
  BY HeaderAssumption
<1> QED BY <1>1, <1>2

\* A byte is a message and a place.
LEMMA ByteParts ==
    /\ \A m, k \in Nat : At(m, k) \in Byte /\ Of(At(m, k)) = m /\ Place(At(m, k)) = k
    /\ \A b \in Byte : Of(b) \in Nat /\ Place(b) \in Nat /\ b = At(Of(b), Place(b))
BY DEF At, Of, Place, Byte

\* What Whole says of byte k of message m.
LEMMA WholeAt ==
    ASSUME NEW r \in Seq(Byte), NEW lens \in Seq(Lengths), Whole(r, lens),
           NEW p \in 1..Len(r), NEW m \in Nat, NEW k \in Nat, r[p] = At(m, k)
    PROVE  /\ m \in 1..Len(lens) /\ k \in 1..lens[m]
           /\ lens[m] \in Nat /\ lens[m] >= 1 /\ p - k >= 0 /\ p - k + lens[m] <= Len(r)
           /\ \A i \in 1..lens[m] : r[p - k + i] = At(m, i)
<1>1. Of(r[p]) = m /\ Place(r[p]) = k
  BY ByteParts
<1>2. m \in 1..Len(lens)
  BY <1>1 DEF Whole
<1>3. lens[m] \in Nat /\ lens[m] >= 1
  BY <1>2, LengthOf
<1>4. k \in 1..lens[m] /\ p - k >= 0 /\ p - k + lens[m] <= Len(r)
  BY <1>1 DEF Whole
<1>5. \A i \in 1..lens[m] : r[p - k + i] = At(m, i)
  BY <1>1 DEF Whole
<1> QED BY <1>2, <1>3, <1>4, <1>5

\* The stream starts with the whole of the next message.
LEMMA FirstMessage ==
    ASSUME NEW r \in Seq(Byte), NEW lens \in Seq(Lengths), NEW f \in Nat,
           Unbroken(r, lens, f), r # <<>>
    PROVE  /\ f + 1 \in 1..Len(lens)
           /\ lens[f + 1] \in Nat /\ lens[f + 1] >= 1 /\ lens[f + 1] <= Len(r)
           /\ \A i \in 1..lens[f + 1] : r[i] = At(f + 1, i)
<1>1. Whole(r, lens) /\ FromTo(r, lens, f) /\ 1 \in 1..Len(r)
  BY DEF Unbroken
<1>2. f + 1 \in 1..Len(lens) /\ r[1] = At(f + 1, 1)
  BY <1>1 DEF FromTo
<1>3. /\ lens[f + 1] \in Nat /\ lens[f + 1] >= 1 /\ 1 - 1 + lens[f + 1] <= Len(r)
      /\ \A i \in 1..lens[f + 1] : r[1 - 1 + i] = At(f + 1, i)
  BY <1>1, <1>2, WholeAt
<1>4. \A i \in 1..lens[f + 1] : 1 - 1 + i = i
  BY <1>3
<1> QED BY <1>2, <1>3, <1>4

\* A message that is sent goes on where the stream ended.
LEMMA AppendMessage ==
    ASSUME NEW r \in Seq(Byte), NEW lens \in Seq(Lengths), NEW f \in Nat,
           Unbroken(r, lens, f),
           NEW R \in Nat, R = Len(r), NEW n \in Nat, n = Len(lens),
           NEW len \in Nat, len \in Lengths, len >= 1,
           NEW lens2 \in Seq(Lengths), lens2 = Append(lens, len),
           NEW t \in Seq(Byte), Longer(t, r, n + 1, len)
    PROVE  Unbroken(t, lens2, f)
<1>0. Whole(r, lens) /\ FromTo(r, lens, f) /\ InOrder(r)
  BY DEF Unbroken
<1>t. Len(t) = R + len
  BY DEF Longer
<1>1. \A p \in 1..Len(t) : p \in 1..R \/ p \in R + 1 .. R + len
  BY <1>t
<1>7. Len(lens2) = n + 1 /\ lens2[n + 1] = len /\ \A m \in 1..n : lens2[m] = lens[m]
  OBVIOUS
<1>2. ASSUME NEW p \in R + 1 .. R + len
      PROVE  /\ t[p] = At(n + 1, p - R) /\ p - R \in Nat
             /\ Of(t[p]) = n + 1 /\ Place(t[p]) = p - R
  <2>1. p - R \in Nat /\ n + 1 \in Nat
    OBVIOUS
  <2>2. t[p] = At(n + 1, p - R)
    BY DEF Longer
  <2> QED BY <2>1, <2>2, ByteParts
<1>3. ASSUME NEW p \in 1..R
      PROVE  /\ t[p] = r[p] /\ r[p] \in Byte /\ Of(r[p]) \in 1..n
             /\ Place(r[p]) \in Nat /\ p \in 1..Len(t)
  <2>1. r[p] \in Byte /\ t[p] = r[p] /\ p \in 1..Len(t)
    BY <1>t DEF Longer
  <2>2. Of(r[p]) \in 1..n
    BY <1>0 DEF Whole
  <2> QED BY <2>1, <2>2, ByteParts
<1>4. Whole(t, lens2)
  <2>1. ASSUME NEW p \in 1..R
        PROVE  /\ Of(t[p]) \in 1..Len(lens2) /\ Place(t[p]) \in 1..lens2[Of(t[p])]
               /\ p - Place(t[p]) >= 0 /\ p - Place(t[p]) + lens2[Of(t[p])] <= Len(t)
               /\ \A i \in 1..lens2[Of(t[p])] : t[p - Place(t[p]) + i] = At(Of(t[p]), i)
    <3> PICK m \in Nat, k \in Nat : r[p] = At(m, k) /\ Of(r[p]) = m /\ Place(r[p]) = k
      BY <1>3, ByteParts
    <3>0. p \in 1..Len(r)
      OBVIOUS
    <3>1. /\ m \in 1..n /\ k \in 1..lens[m]
          /\ lens[m] \in Nat /\ lens[m] >= 1 /\ p - k >= 0 /\ p - k + lens[m] <= R
          /\ \A i \in 1..lens[m] : r[p - k + i] = At(m, i)
      <4>1. /\ m \in 1..Len(lens) /\ k \in 1..lens[m]
            /\ p - k >= 0 /\ p - k + lens[m] <= Len(r)
            /\ \A i \in 1..lens[m] : r[p - k + i] = At(m, i)
        BY <1>0, <3>0 DEF Whole
      <4>2. lens[m] \in Nat /\ lens[m] >= 1
        BY <4>1, LengthOf
      <4> QED BY <4>1, <4>2
    <3>2. \A i \in 1..lens[m] : p - k + i \in 1..R
      BY <3>1
    <3>3. Of(t[p]) = m /\ Place(t[p]) = k
      BY <1>3
    <3>4. ASSUME NEW i \in 1..lens[m]
          PROVE  t[p - k + i] = At(m, i)
      <4>1. p - k + i \in 1..R
        BY <3>2
      <4> QED BY <1>3, <3>1, <4>1
    <3>5. lens2[m] = lens[m]
      BY <1>7, <3>1
    <3>6. m \in 1..Len(lens2) /\ p - k + lens[m] <= Len(t)
      BY <1>t, <1>7, <3>1
    <3> QED BY <3>1, <3>3, <3>4, <3>5, <3>6
  <2>2. ASSUME NEW p \in R + 1 .. R + len
        PROVE  /\ Of(t[p]) \in 1..Len(lens2) /\ Place(t[p]) \in 1..lens2[Of(t[p])]
               /\ p - Place(t[p]) >= 0 /\ p - Place(t[p]) + lens2[Of(t[p])] <= Len(t)
               /\ \A i \in 1..lens2[Of(t[p])] : t[p - Place(t[p]) + i] = At(Of(t[p]), i)
    <3>1. Of(t[p]) = n + 1 /\ Place(t[p]) = p - R
      BY <1>2
    <3>2. p - (p - R) = R /\ p - R \in 1..len /\ n + 1 \in 1..n + 1
      OBVIOUS
    <3>3. ASSUME NEW i \in 1..len
          PROVE  t[R + i] = At(n + 1, i)
      <4> PICK q \in Int : q = R + i
        OBVIOUS
      <4>1. q \in R + 1 .. R + len /\ q - R = i
        OBVIOUS
      <4>2. t[q] = At(n + 1, q - R)
        BY <1>2, <4>1
      <4> QED BY <4>1, <4>2
    <3> QED BY <1>t, <1>7, <3>1, <3>2, <3>3
  <2> QED BY <1>1, <2>1, <2>2 DEF Whole
<1>5. FromTo(t, lens2, f)
  <2>1. R + len \in R + 1 .. R + len /\ R + len - R = len /\ R + len # 0
    OBVIOUS
  <2>2. t[Len(t)] = At(n + 1, len)
    <3>1. t[R + len] = At(n + 1, R + len - R)
      BY <1>2, <2>1
    <3> QED BY <1>t, <2>1, <3>1
  <2>3. f \in 0..n + 1 /\ f # n + 1 /\ t # <<>>
    BY <1>0, <1>t, <2>1 DEF FromTo
  <2>4. t[1] = At(f + 1, 1)
    <3>1. CASE r = <<>>
      <4>1. f = n /\ R = 0
        BY <1>0, <3>1 DEF FromTo
      <4>2. 1 \in R + 1 .. R + len /\ 1 - R = 1
        BY <4>1
      <4>3. t[1] = At(n + 1, 1 - R)
        BY <1>2, <4>2
      <4> QED BY <4>1, <4>2, <4>3
    <3>2. CASE r # <<>>
      <4>1. 1 \in 1..R /\ r[1] = At(f + 1, 1)
        BY <1>0, <3>2 DEF FromTo
      <4> QED BY <1>3, <4>1
    <3> QED BY <3>1, <3>2
  <2> QED BY <1>7, <2>2, <2>3, <2>4 DEF FromTo
<1>6. InOrder(t)
  <2>1. ASSUME NEW p \in 1..Len(t), NEW q \in 1..Len(t), p <= q
        PROVE  Of(t[p]) <= Of(t[q])
    <3>1. CASE q \in 1..R
      <4>1. p \in 1..R
        BY <2>1, <3>1
      <4>2. Of(r[p]) <= Of(r[q])
        BY <1>0, <2>1, <3>1, <4>1 DEF InOrder
      <4> QED BY <1>3, <3>1, <4>1, <4>2
    <3>2. CASE q \in R + 1 .. R + len
      <4>1. Of(t[q]) = n + 1
        BY <1>2, <3>2
      <4>2. CASE p \in 1..R
        <5>1. Of(t[p]) \in 1..n
          BY <1>3, <4>2
        <5> QED BY <4>1, <5>1
      <4>3. CASE p \in R + 1 .. R + len
        <5>1. Of(t[p]) = n + 1
          BY <1>2, <4>3
        <5> QED BY <4>1, <5>1
      <4> QED BY <1>1, <4>2, <4>3
    <3> QED BY <1>1, <3>1, <3>2
  <2>2. ASSUME NEW p \in 1..Len(t), NEW q \in 1..Len(t), q = p + 1
        PROVE  \/ t[q] = At(Of(t[p]), Place(t[p]) + 1)
               \/ t[q] = At(Of(t[p]) + 1, 1)
    <3>1. CASE q \in 1..R
      <4>1. p \in 1..R
        BY <2>2, <3>1
      <4>2. \/ r[q] = At(Of(r[p]), Place(r[p]) + 1)
            \/ r[q] = At(Of(r[p]) + 1, 1)
        BY <1>0, <2>2, <3>1, <4>1 DEF InOrder
      <4> QED BY <1>3, <3>1, <4>1, <4>2
    <3>2. CASE p = R
      <4>1. R \in 1..R /\ q \in R + 1 .. R + len /\ q - R = 1 /\ r # <<>>
        BY <1>t, <2>2, <3>2
      <4>2. r[R] = At(n, lens[n]) /\ lens[n] \in Nat
        <5>1. r[R] = At(n, lens[n]) /\ n # 0
          BY <1>0, <4>1 DEF FromTo
        <5>2. n \in 1..Len(lens)
          BY <5>1
        <5> QED BY <5>1, <5>2, LengthOf
      <4>3. Of(t[p]) = n
        BY <1>3, <3>2, <4>1, <4>2, ByteParts, ZenonT(60)
      <4>4. t[q] = At(n + 1, q - R)
        BY <1>2, <4>1
      <4> QED BY <4>1, <4>3, <4>4
    <3>3. CASE p \in R + 1 .. R + len
      <4>1. q \in R + 1 .. R + len /\ q - R = p - R + 1
        BY <1>t, <2>2, <3>3
      <4>2. t[q] = At(n + 1, q - R) /\ Of(t[p]) = n + 1 /\ Place(t[p]) = p - R
        BY <1>2, <3>3, <4>1
      <4> QED BY <4>1, <4>2
    <3>4. q \in 1..R \/ p = R \/ p \in R + 1 .. R + len
      BY <1>t, <2>2
    <3> QED BY <3>1, <3>2, <3>3, <3>4
  <2>3. ASSUME NEW p \in 1..Len(t), NEW q \in 1..Len(t)
        PROVE  /\ p <= q => Of(t[p]) <= Of(t[q])
               /\ q = p + 1 =>
                      \/ t[q] = At(Of(t[p]), Place(t[p]) + 1)
                      \/ t[q] = At(Of(t[p]) + 1, 1)
    BY <2>1, <2>2
  <2> QED BY <2>3 DEF InOrder
<1> QED BY <1>4, <1>5, <1>6 DEF Unbroken

\* When its first message is taken away, the stream starts with the next.
LEMMA RemoveMessage ==
    ASSUME NEW r \in Seq(Byte), NEW lens \in Seq(Lengths), NEW f \in Nat,
           Unbroken(r, lens, f), r # <<>>,
           NEW R \in Nat, R = Len(r), NEW n \in Nat, n = Len(lens),
           NEW L \in Nat, IsLength(L, lens, f + 1),
           NEW t \in Seq(Byte), Shorter(t, r, L)
    PROVE  Unbroken(t, lens, f + 1)
<1>0. Whole(r, lens) /\ FromTo(r, lens, f) /\ InOrder(r)
  BY DEF Unbroken
<1>1. /\ f + 1 \in 1..n /\ L >= 1 /\ L <= R
      /\ \A i \in 1..L : r[i] = At(f + 1, i)
  BY FirstMessage DEF IsLength
<1>2. ASSUME NEW p \in 1..R
      PROVE  /\ r[p] \in Byte /\ Of(r[p]) \in 1..n
             /\ Place(r[p]) \in Nat /\ r[p] = At(Of(r[p]), Place(r[p]))
  <2>1. r[p] \in Byte
    OBVIOUS
  <2>2. Of(r[p]) \in 1..n
    BY <1>0 DEF Whole
  <2> QED BY <2>1, <2>2, ByteParts
<1>3. \A p \in 1..R - L : p + L \in 1..R /\ p + L > L /\ t[p] = r[p + L]
  BY <1>1 DEF Shorter
<1>t. Len(t) = R - L
  BY DEF Shorter
\* The byte after the first message is the first of the next.
<1>4. R > L => r[L + 1] = At(f + 2, 1)
  <2> SUFFICES ASSUME R > L PROVE r[L + 1] = At(f + 2, 1)
    OBVIOUS
  <2>1. L \in 1..R /\ L + 1 \in 1..R /\ L \in 1..L /\ f + 1 \in Nat
    BY <1>1
  <2>2. Of(r[L]) = f + 1 /\ Place(r[L]) = L
    BY <1>1, <2>1, ByteParts
  <2>3. \/ r[L + 1] = At(Of(r[L]), Place(r[L]) + 1)
        \/ r[L + 1] = At(Of(r[L]) + 1, 1)
    BY <1>0, <2>1 DEF InOrder
  <2>4. r[L + 1] = At(f + 1, L + 1) \/ r[L + 1] = At(f + 1 + 1, 1)
    BY <2>2, <2>3
  <2>5. r[L + 1] # At(f + 1, L + 1)
    <3> SUFFICES ASSUME r[L + 1] = At(f + 1, L + 1) PROVE FALSE
      OBVIOUS
    <3>1. L + 1 \in Nat /\ ~(L + 1 \in 1..L)
      OBVIOUS
    <3>2. L + 1 \in 1..lens[f + 1]
      BY <1>0, <2>1, <3>1, WholeAt, SMTT(60)
    <3> QED BY <3>1, <3>2 DEF IsLength
  <2>6. f + 1 + 1 = f + 2
    OBVIOUS
  <2> QED BY <2>4, <2>5, <2>6
\* So no other byte is of the first message.
<1>5. ASSUME NEW p \in 1..R, p > L
      PROVE  Of(r[p]) >= f + 2
  <2>1. R > L /\ L + 1 \in 1..R /\ L + 1 <= p /\ f + 2 \in Nat
    BY <1>1, <1>5
  <2>2. Of(r[L + 1]) <= Of(r[p])
    BY <1>0, <2>1 DEF InOrder
  <2>3. Of(r[L + 1]) = f + 2
    BY <1>4, <2>1, ByteParts
  <2>4. Of(r[p]) \in Int
    BY <1>2
  <2> QED BY <2>2, <2>3, <2>4
<1>6. Whole(t, lens)
  <2>1. ASSUME NEW p \in 1..R - L
        PROVE  /\ Of(t[p]) \in 1..n /\ Place(t[p]) \in 1..lens[Of(t[p])]
               /\ p - Place(t[p]) >= 0 /\ p - Place(t[p]) + lens[Of(t[p])] <= R - L
               /\ \A i \in 1..lens[Of(t[p])] :
                      t[p - Place(t[p]) + i] = At(Of(t[p]), i)
    <3> PICK P \in 1..R : P = p + L /\ P > L /\ t[p] = r[P]
      BY <1>3
    <3> PICK m \in Nat, k \in Nat : r[P] = At(m, k) /\ Of(r[P]) = m /\ Place(r[P]) = k
      BY <1>2
    <3>0. P \in 1..Len(r)
      OBVIOUS
    <3>1. /\ m \in 1..n /\ k \in 1..lens[m]
          /\ lens[m] \in Nat /\ lens[m] >= 1 /\ P - k >= 0 /\ P - k + lens[m] <= R
          /\ \A i \in 1..lens[m] : r[P - k + i] = At(m, i)
      <4>1. /\ m \in 1..Len(lens) /\ k \in 1..lens[m]
            /\ P - k >= 0 /\ P - k + lens[m] <= Len(r)
            /\ \A i \in 1..lens[m] : r[P - k + i] = At(m, i)
        BY <1>0, <3>0 DEF Whole
      <4>2. lens[m] \in Nat /\ lens[m] >= 1
        BY <4>1, LengthOf
      <4> QED BY <4>1, <4>2
    <3>2. /\ m \in 1..n /\ lens[m] \in Nat /\ lens[m] >= 1 /\ k \in 1..lens[m]
          /\ P - k >= 0 /\ P - k + lens[m] <= R /\ f + 1 \in 1..n
      BY <1>1, <3>1
    <3>3. m >= f + 2
      BY <1>5
    \* Its message begins after the first, whose bytes are other ones.
    <3>4. P - k >= L
      <4> SUFFICES ASSUME P - k < L PROVE FALSE
        BY <3>2
      <4>1. P - k + 1 \in 1..L /\ 1 \in 1..lens[m] /\ P - k + 1 \in Nat /\ f + 1 \in Nat
        BY <3>2
      <4>2. r[P - k + 1] = At(m, 1)
        BY <3>1, <4>1
      <4>3. r[P - k + 1] = At(f + 1, P - k + 1)
        BY <1>1, <4>1
      <4>4. m = f + 1
        BY <4>1, <4>2, <4>3, ByteParts
      <4> QED BY <3>3, <4>4
    <3>5. ASSUME NEW i \in 1..lens[m]
          PROVE  t[p - k + i] = At(m, i)
      <4>1. p - k + i \in 1..R - L /\ p - k + i + L = P - k + i
        BY <3>2, <3>4, SMTT(60)
      <4>2. t[p - k + i] = r[p - k + i + L]
        BY <1>3, <4>1, Zenon
      <4> QED BY <3>1, <4>1, <4>2
    <3>6. p - k >= 0 /\ p - k + lens[m] <= R - L
      BY <3>2, <3>4
    <3>7. Of(t[p]) = m /\ Place(t[p]) = k
      OBVIOUS
    <3> QED BY <3>1, <3>5, <3>6, <3>7
  <2> QED BY <1>t, <2>1 DEF Whole
<1>7. FromTo(t, lens, f + 1)
  <2>1. R # 0 /\ r # <<>> /\ r[R] = At(n, lens[n])
    BY <1>0, <1>1 DEF FromTo
  <2>2. n \in 1..Len(lens)
    BY <1>1
  <2>3. lens[n] \in Nat /\ Of(r[R]) = n
    BY <2>1, <2>2, LengthOf, ByteParts, SMTT(60)
  <2>4. CASE R = L
    <3>1. t = <<>>
      BY <1>t, <2>4
    <3>2. R \in 1..L /\ f + 1 \in Nat
      BY <1>1, <2>4
    <3>3. Of(r[R]) = f + 1
      BY <1>1, <3>2, ByteParts
    <3> QED BY <1>1, <2>3, <3>1, <3>3 DEF FromTo
  <2>5. CASE R > L
    <3>1. /\ 1 \in 1..R - L /\ R - L \in 1..R - L /\ R - L + L = R /\ 1 + L = L + 1
          /\ R \in 1..R /\ f + 1 + 1 = f + 2
      BY <1>1, <2>5
    <3>2. t[1] = At(f + 1 + 1, 1)
      BY <1>3, <1>4, <2>5, <3>1
    <3>3. t[Len(t)] = At(n, lens[n])
      BY <1>3, <1>t, <2>1, <3>1
    <3>4. n >= f + 2
      BY <1>5, <2>3, <2>5, <3>1
    <3>5. f + 1 \in 0..n /\ f + 1 # n /\ t # <<>>
      BY <1>t, <3>4, <3>1
    <3> QED BY <3>2, <3>3, <3>5 DEF FromTo
  <2> QED BY <1>1, <2>4, <2>5
<1>8. InOrder(t)
  <2>1. ASSUME NEW p \in 1..R - L, NEW q \in 1..R - L
        PROVE  /\ p <= q => Of(t[p]) <= Of(t[q])
               /\ q = p + 1 =>
                      \/ t[q] = At(Of(t[p]), Place(t[p]) + 1)
                      \/ t[q] = At(Of(t[p]) + 1, 1)
    <3> PICK P \in 1..R : P = p + L /\ t[p] = r[P]
      BY <1>3
    <3> PICK Q \in 1..R : Q = q + L /\ t[q] = r[Q]
      BY <1>3
    <3>1. (p <= q => P <= Q) /\ (q = p + 1 => Q = P + 1)
      OBVIOUS
    <3>2. /\ P <= Q => Of(r[P]) <= Of(r[Q])
          /\ Q = P + 1 =>
                 \/ r[Q] = At(Of(r[P]), Place(r[P]) + 1)
                 \/ r[Q] = At(Of(r[P]) + 1, 1)
      BY <1>0 DEF InOrder
    <3> QED BY <3>1, <3>2
  <2> QED BY <1>t, <2>1 DEF InOrder
<1> QED BY <1>6, <1>7, <1>8 DEF Unbroken

-----------------------------------------------------------------------------
\* It does not matter which two of three sequences are joined first.
LEMMA Joined ==
    \A a, u, v \in Seq(Byte) : (a \o u) \o v = a \o (u \o v)
BY ConcatAssociative

\* The rest of the stream is three sequences: their bytes one after another.
LEMMA ThreePieces ==
    ASSUME NEW b \in Seq(Byte), NEW a \in Seq(Byte), NEW w \in Seq(Byte)
    PROVE  /\ b \o a \o w \in Seq(Byte)
           /\ Len(b \o a \o w) = Len(b) + Len(a) + Len(w)
           /\ \A i \in 1..Len(b) : (b \o a \o w)[i] = b[i]
           /\ b \o a \o w = b \o (a \o w)
<1>1. a \o w \in Seq(Byte) /\ Len(a \o w) = Len(a) + Len(w)
  BY ConcatProperties
<1>2. b \o a \o w = b \o (a \o w)
  BY ConcatAssociative, SMTT(60)
<1>3. /\ b \o (a \o w) \in Seq(Byte)
      /\ Len(b \o (a \o w)) = Len(b) + Len(a \o w)
      /\ \A i \in 1 .. Len(b) + Len(a \o w) :
             (b \o (a \o w))[i] = IF i <= Len(b) THEN b[i] ELSE (a \o w)[i - Len(b)]
  BY <1>1, ConcatProperties
<1>4. \A i \in 1..Len(b) : i \in 1 .. Len(b) + Len(a \o w) /\ i <= Len(b)
  BY <1>1
<1>5. \A i \in 1..Len(b) : (b \o (a \o w))[i] = b[i]
  BY <1>3, <1>4
<1>6. Len(b) + Len(a \o w) = Len(b) + Len(a) + Len(w)
  BY <1>1
<1> QED BY <1>2, <1>3, <1>5, <1>6

\* Bytes that move from the wire to the piece before it stay in their place.
LEMMA MoveBytes ==
    ASSUME NEW a \in Seq(Byte), NEW w \in Seq(Byte), NEW k \in 1..Len(w)
    PROVE  /\ SubSeq(w, 1, k) \in Seq(Byte) /\ SubSeq(w, k + 1, Len(w)) \in Seq(Byte)
           /\ a \o SubSeq(w, 1, k) \in Seq(Byte)
           /\ (a \o SubSeq(w, 1, k)) \o SubSeq(w, k + 1, Len(w)) = a \o w
<1>1. \A i \in Int : i >= 1 /\ i <= Len(w) => w[i] \in Byte
  OBVIOUS
<1>2. SubSeq(w, 1, k) \in Seq(Byte)
  BY <1>1, SubSeqProperties
<1>3. SubSeq(w, k + 1, Len(w)) \in Seq(Byte)
  <2>1. \A i \in k + 1 .. Len(w) : w[i] \in Byte
    BY <1>1
  <2> QED BY <2>1, SubSeqProperties
<1>4. SubSeq(w, 1, k) \o SubSeq(w, k + 1, Len(w)) = w
  <2>1. 1 \in 1..Len(w) + 1 /\ k \in 1 - 1 .. Len(w) /\ Len(w) \in k .. Len(w)
    OBVIOUS
  <2>2. SubSeq(w, 1, k) \o SubSeq(w, k + 1, Len(w)) = SubSeq(w, 1, Len(w))
    BY <2>1, ConcatAdjacentSubSeq
  <2> QED BY <2>2, SubSeqFull
<1>5. (a \o SubSeq(w, 1, k)) \o SubSeq(w, k + 1, Len(w))
          = a \o (SubSeq(w, 1, k) \o SubSeq(w, k + 1, Len(w)))
  <2> DEFINE u == SubSeq(w, 1, k)
             v == SubSeq(w, k + 1, Len(w))
  <2>1. u \in Seq(Byte) /\ v \in Seq(Byte)
    BY <1>2, <1>3
  <2> HIDE DEF u, v
  <2>2. (a \o u) \o v = a \o (u \o v)
    BY <2>1, Joined
  <2> QED BY <2>2 DEF u, v
<1>6. a \o SubSeq(w, 1, k) \in Seq(Byte)
  BY <1>2, ConcatProperties
<1> QED BY <1>2, <1>3, <1>4, <1>5, <1>6

\* A message on the wire, and the stream with it.
LEMMA MessageBytes ==
    ASSUME NEW r \in Seq(Byte), NEW n \in Nat, NEW len \in Nat,
           NEW s, s = [i \in 1..len |-> <<n, i>>]
    PROVE  s \in Seq(Byte) /\ r \o s \in Seq(Byte) /\ Longer(r \o s, r, n, len)
<1>1. s \in Seq(Byte) /\ Len(s) = len /\ \A i \in 1..len : s[i] = At(n, i)
  BY DEF Byte, At
<1>2. /\ r \o s \in Seq(Byte) /\ Len(r \o s) = Len(r) + len
      /\ \A i \in 1 .. Len(r) + len :
             (r \o s)[i] = IF i <= Len(r) THEN r[i] ELSE s[i - Len(r)]
  BY <1>1, ConcatProperties
<1>3. \A p \in 1..Len(r) : (r \o s)[p] = r[p]
  <2>1. \A p \in 1..Len(r) : p \in 1 .. Len(r) + len /\ p <= Len(r)
    OBVIOUS
  <2> QED BY <1>2, <2>1
<1>4. ASSUME NEW p \in Len(r) + 1 .. Len(r) + len
      PROVE  (r \o s)[p] = At(n, p - Len(r))
  <2>1. p \in 1 .. Len(r) + len /\ ~(p <= Len(r)) /\ p - Len(r) \in 1..len
    OBVIOUS
  <2>2. (r \o s)[p] = s[p - Len(r)]
    BY <1>2, <2>1
  <2> QED BY <1>1, <2>1, <2>2
<1>5. Longer(r \o s, r, n, len)
  BY <1>2, <1>3, <1>4 DEF Longer
<1> QED BY <1>1, <1>2, <1>5

\* What is left of the stream when bytes are removed from the buffer.
LEMMA DropBytes ==
    ASSUME NEW b \in Seq(Byte), NEW a \in Seq(Byte), NEW w \in Seq(Byte),
           NEW L \in 1..Len(b)
    PROVE  /\ SubSeq(b, L + 1, Len(b)) \in Seq(Byte)
           /\ SubSeq(b, L + 1, Len(b)) \o a \o w \in Seq(Byte)
           /\ Shorter(SubSeq(b, L + 1, Len(b)) \o a \o w, b \o a \o w, L)
<1> DEFINE c == SubSeq(b, L + 1, Len(b))
           d == a \o w
<1>1. d \in Seq(Byte)
  BY ConcatProperties
<1>2. c \in Seq(Byte) /\ Len(c) = Len(b) - L /\ \A i \in 1..Len(c) : c[i] = b[i + L]
  <2>1. \A i \in L + 1 .. Len(b) : b[i] \in Byte
    OBVIOUS
  <2>2. /\ c \in Seq(Byte)
        /\ Len(c) = IF L + 1 <= Len(b) THEN Len(b) - (L + 1) + 1 ELSE 0
        /\ \A i \in 1 .. Len(b) - (L + 1) + 1 : c[i] = b[L + 1 + i - 1]
    BY <2>1, SubSeqProperties
  <2> HIDE DEF c
  <2>3. Len(c) = Len(b) - L /\ Len(b) - (L + 1) + 1 = Len(b) - L
    BY <2>2
  <2>4. ASSUME NEW i \in 1..Len(c)
        PROVE  c[i] = b[i + L]
    <3>1. i \in 1 .. Len(b) - (L + 1) + 1 /\ L + 1 + i - 1 = i + L
      BY <2>3
    <3>2. c[i] = b[L + 1 + i - 1]
      BY <2>2, <3>1
    <3> QED BY <3>1, <3>2
  <2> QED BY <2>2, <2>3, <2>4
<1> HIDE DEF c, d
<1>3. b \o a \o w = b \o d /\ c \o a \o w = c \o d
  <2>1. b \o a \o w = b \o (a \o w)
    BY ConcatAssociative, SMTT(60)
  <2>2. c \o a \o w = c \o (a \o w)
    BY <1>2, Joined, ZenonT(60)
  <2> QED BY <2>1, <2>2 DEF d
<1>4. /\ Len(b \o d) = Len(b) + Len(d)
      /\ \A i \in 1 .. Len(b) + Len(d) :
             (b \o d)[i] = IF i <= Len(b) THEN b[i] ELSE d[i - Len(b)]
  BY <1>1, ConcatProperties
<1>5. /\ c \o d \in Seq(Byte) /\ Len(c \o d) = Len(c) + Len(d)
      /\ \A i \in 1 .. Len(c) + Len(d) :
             (c \o d)[i] = IF i <= Len(c) THEN c[i] ELSE d[i - Len(c)]
  BY <1>1, <1>2, ConcatProperties
<1>6. Len(c \o d) = Len(b \o d) - L
  BY <1>1, <1>2, <1>4, <1>5
<1>7. ASSUME NEW p \in 1..Len(c \o d)
      PROVE  (c \o d)[p] = (b \o d)[p + L]
  <2>1. /\ p \in 1 .. Len(c) + Len(d) /\ p + L \in 1 .. Len(b) + Len(d)
        /\ p <= Len(c) <=> p + L <= Len(b)
        /\ p + L - Len(b) = p - Len(c)
    BY <1>1, <1>2, <1>5
  <2>2. CASE p <= Len(c)
    <3>1. (c \o d)[p] = c[p] /\ (b \o d)[p + L] = b[p + L] /\ p \in 1..Len(c)
      BY <1>4, <1>5, <2>1, <2>2
    <3> QED BY <1>2, <3>1
  <2>3. CASE ~(p <= Len(c))
    <3>1. (c \o d)[p] = d[p - Len(c)] /\ (b \o d)[p + L] = d[p + L - Len(b)]
      BY <1>4, <1>5, <2>1, <2>3
    <3> QED BY <2>1, <3>1
  <2> QED BY <2>2, <2>3
<1>8. Shorter(c \o d, b \o d, L)
  BY <1>6, <1>7 DEF Shorter
<1> QED BY <1>2, <1>3, <1>5, <1>8 DEF c

\* The bytes of a message are a prefix of a sequence that starts with them.
LEMMA StartsWith ==
    ASSUME NEW b \in Seq(Byte), NEW m \in Nat, NEW L \in Nat, L <= Len(b),
           \A i \in 1..L : b[i] = At(m, i)
    PROVE  IsPrefix([i \in 1..L |-> <<m, i>>], b)
<1> DEFINE s == [i \in 1..L |-> <<m, i>>]
<1>1. s \in Seq(Byte) /\ Len(s) = L /\ \A i \in 1..L : s[i] = b[i]
  <2>1. s \in Seq(Byte) /\ Len(s) = L
    BY DEF Byte
  <2>2. \A i \in 1..L : s[i] = <<m, i>>
    OBVIOUS
  <2> HIDE DEF s
  <2>3. \A i \in 1..L : s[i] = At(m, i)
    BY <2>2 DEF At
  <2> QED BY <2>1, <2>3
<1> HIDE DEF s
<1>2. \A i \in 1..L : b[i] \in Byte /\ s[i] \in Byte
  BY <1>1
<1>3. /\ SubSeq(b, 1, L) \in Seq(Byte) /\ Len(SubSeq(b, 1, L)) = L
      /\ \A i \in 1..L : SubSeq(b, 1, L)[i] = b[i]
  <2>1. /\ SubSeq(b, 1, L) \in Seq(Byte)
        /\ Len(SubSeq(b, 1, L)) = IF 1 <= L THEN L - 1 + 1 ELSE 0
        /\ \A i \in 1 .. L - 1 + 1 : SubSeq(b, 1, L)[i] = b[1 + i - 1]
    BY <1>2, SubSeqProperties
  <2> QED BY <2>1
<1>4. SubSeq(s, 1, L) = s
  BY <1>1, SubSeqFull
<1>5. s = SubSeq(b, 1, L)
  BY <1>1, <1>3, SeqEqual
<1> QED BY <1>1, <1>4, <1>5 DEF IsPrefix, s

-----------------------------------------------------------------------------
\* When the buffer holds a header, it is that of the first message that is
\* not finished, and the loop reads the length of that message.
LEMMA FrontIsNext ==
    ASSUME StreamInv, Len(buffer) >= Header
    PROVE  /\ Finished \in Nat /\ Finished + 1 \in 1..Len(uiPDULen)
           /\ buffer # <<>> /\ rest # <<>> /\ rest \in Seq(Byte)
           /\ Head(buffer) = At(Finished + 1, 1)
           /\ FrontLen = uiPDULen[Finished + 1]
           /\ FrontLen \in Nat /\ FrontLen >= 1
           /\ \A i \in 1..FrontLen : rest[i] = At(Finished + 1, i)
<1> USE DEF StreamInv, PiecesOK
<1>1. buffer \in Seq(Byte) /\ Len(buffer) >= 1
  BY HeaderAssumption
<1>2. /\ rest \in Seq(Byte) /\ Len(rest) = Len(buffer) + Len(arrived) + Len(wire)
      /\ \A i \in 1..Len(buffer) : rest[i] = buffer[i]
  BY ThreePieces DEF rest
<1>3. rest # <<>> /\ buffer # <<>> /\ 1 \in 1..Len(buffer)
  BY <1>1, <1>2
<1>4. Finished \in Nat
  BY DEF Unbroken, FromTo
<1>5. /\ Finished + 1 \in 1..Len(uiPDULen) /\ uiPDULen[Finished + 1] \in Nat
      /\ uiPDULen[Finished + 1] >= 1
      /\ \A i \in 1..uiPDULen[Finished + 1] : rest[i] = At(Finished + 1, i)
  BY <1>2, <1>3, <1>4, FirstMessage
<1>6. 1 \in 1..uiPDULen[Finished + 1]
  BY <1>5
<1>7. Head(buffer) = At(Finished + 1, 1)
  BY <1>1, <1>2, <1>3, <1>5, <1>6
<1>8. Head(buffer)[1] = Finished + 1 /\ Head(buffer)[2] = 1
  BY <1>7 DEF At
<1>9. FrontLen = uiPDULen[Finished + 1]
  BY <1>8 DEF FrontLen
<1> QED BY <1>2, <1>3, <1>4, <1>5, <1>7, <1>9

\* When the loop takes the front for complete, it is, and what is handled is
\* the first message that is not finished.
LEMMA CompleteIsNext ==
    ASSUME StreamInv, Complete
    PROVE  FrontLen \in 1..Len(buffer) /\ FrontPDU = Finished + 1
<1>1. buffer \in Seq(Byte) /\ arrived \in Seq(Byte) /\ wire \in Seq(Byte)
  BY DEF StreamInv, PiecesOK
<1>2. Len(buffer) >= Header /\ Len(buffer) >= FrontLen
  BY DEF Complete
<1>3. /\ Finished \in Nat /\ Head(buffer) = At(Finished + 1, 1)
      /\ FrontLen = uiPDULen[Finished + 1] /\ FrontLen \in Nat /\ FrontLen >= 1
      /\ \A i \in 1..FrontLen : rest[i] = At(Finished + 1, i)
  BY <1>2, FrontIsNext
<1>4. FrontLen \in 1..Len(buffer)
  BY <1>1, <1>2, <1>3
<1>5. \A i \in 1..Len(buffer) : rest[i] = buffer[i]
  BY <1>1, ThreePieces DEF rest
<1>6. \A i \in 1..FrontLen : buffer[i] = At(Finished + 1, i)
  <2>1. \A i \in 1..FrontLen : i \in 1..Len(buffer)
    BY <1>1, <1>4
  <2> QED BY <1>3, <1>5, <2>1
<1>7. IsPrefix([i \in 1..FrontLen |-> <<Finished + 1, i>>], buffer)
  <2>1. Finished + 1 \in Nat
    BY <1>3
  <2> QED BY <1>1, <1>2, <1>3, <1>6, <2>1, StartsWith
<1>8. Head(buffer)[1] = Finished + 1
  BY <1>3 DEF At
<1>9. Bytes(Finished + 1) = [i \in 1..FrontLen |-> <<Finished + 1, i>>]
  BY <1>3 DEF Bytes
<1> QED BY <1>4, <1>7, <1>8, <1>9 DEF FrontPDU

\* A message is sent.
LEMMA SendKeeps ==
    ASSUME StreamInv, SendMsg
    PROVE  StreamInv'
<1> PICK len \in Lengths :
        /\ uiPDULen' = Append(uiPDULen, len)
        /\ wire' = wire \o [i \in 1..len |-> <<sent + 1, i>>]
  BY DEF SendMsg
<1>1. /\ wire \in Seq(Byte) /\ arrived \in Seq(Byte) /\ buffer \in Seq(Byte)
      /\ uiPDULen \in Seq(Lengths) /\ Unbroken(rest, uiPDULen, Finished)
      /\ len \in Nat /\ len >= 1 /\ sent \in Nat /\ Finished \in Nat
  BY HeaderAssumption DEF StreamInv, PiecesOK, Unbroken, FromTo, sent
<1> PICK s : s = [i \in 1..len |-> <<sent + 1, i>>]
  OBVIOUS
<1> PICK m \in Nat : m = sent + 1
  BY <1>1
<1>2. s = [i \in 1..len |-> <<m, i>>] /\ len \in Nat
  BY <1>1
<1>3. rest \in Seq(Byte)
  BY <1>1, ThreePieces DEF rest
<1>4. /\ s \in Seq(Byte) /\ rest \o s \in Seq(Byte)
      /\ Longer(rest \o s, rest, m, len)
  BY <1>2, <1>3, MessageBytes
<1>5. uiPDULen' \in Seq(Lengths)
  BY <1>1
<1>6. Unbroken(rest \o s, uiPDULen', Finished)
  <2> PICK n \in Nat : n = Len(uiPDULen) /\ m = n + 1
    BY <1>1 DEF sent
  <2>1. Longer(rest \o s, rest, n + 1, len) /\ rest \o s \in Seq(Byte)
    BY <1>4
  <2> PICK R \in Nat : R = Len(rest)
    BY <1>3
  <2> QED BY <1>1, <1>3, <1>5, <2>1, AppendMessage
<1>7. rest' = rest \o s
  <2>1. wire' = wire \o s /\ arrived' = arrived /\ buffer' = buffer
    BY DEF SendMsg
  <2>2. buffer \o arrived \in Seq(Byte)
    BY <1>1, ConcatProperties
  <2>3. (buffer \o arrived) \o (wire \o s) = ((buffer \o arrived) \o wire) \o s
    BY <1>1, <1>4, <2>2, Joined, ZenonT(60)
  <2> QED BY <2>1, <2>3 DEF rest
<1>8. Finished' = Finished
  BY DEF SendMsg, Finished
<1>9. PiecesOK'
  <2>0. wire' \in Seq(Byte)
    BY <1>1, <1>4, ConcatProperties
  <2>1. (wire \in Seq(Byte) /\ arrived \in Seq(Byte) /\ buffer \in Seq(Byte)
         /\ handled \in Seq(Nat))'
    BY <1>1, <2>0 DEF SendMsg, StreamInv, PiecesOK
  <2>2. ASSUME pc' = "dialog"
        PROVE  handled' # <<>> /\ Complete'
    <3>1. pc = "dialog" /\ handled # <<>> /\ Complete /\ handled' = handled /\ buffer' = buffer
      BY <2>2 DEF SendMsg, StreamInv, PiecesOK
    <3>2. /\ Finished + 1 \in 1..Len(uiPDULen) /\ Head(buffer) = At(Finished + 1, 1)
          /\ FrontLen = uiPDULen[Finished + 1]
      BY <3>1, FrontIsNext DEF Complete
    <3>3. uiPDULen'[Finished + 1] = uiPDULen[Finished + 1]
      BY <1>1, <3>2
    <3>4. FrontLen' = uiPDULen'[Finished + 1]
      BY <3>1, <3>2 DEF FrontLen, At
    <3> QED BY <3>1, <3>2, <3>3, <3>4 DEF Complete
  <2> QED BY <2>1, <2>2 DEF PiecesOK
<1> QED BY <1>5, <1>6, <1>7, <1>8, <1>9 DEF StreamInv, SendMsg

\* Bytes arrive, and nobody is told.
LEMMA UnseenKeeps ==
    ASSUME StreamInv, ArriveUnseen
    PROVE  StreamInv'
<1> PICK k \in 1..Len(wire) :
        /\ arrived' = arrived \o SubSeq(wire, 1, k)
        /\ wire' = SubSeq(wire, k + 1, Len(wire))
  BY DEF ArriveUnseen
<1>1. /\ wire \in Seq(Byte) /\ arrived \in Seq(Byte) /\ buffer \in Seq(Byte)
      /\ Unbroken(rest, uiPDULen, Finished)
  BY DEF StreamInv, PiecesOK
<1>2. /\ wire' \in Seq(Byte) /\ arrived' \in Seq(Byte)
      /\ arrived' \o wire' = arrived \o wire
  BY <1>1, MoveBytes
<1>3. buffer' = buffer /\ uiPDULen' = uiPDULen /\ pc' = pc /\ handled' = handled
  BY DEF ArriveUnseen
<1>4. rest' = rest
  <2>1. (buffer \o arrived) \o wire = buffer \o (arrived \o wire)
    BY <1>1, Joined
  <2>2. (buffer \o arrived') \o wire' = buffer \o (arrived' \o wire')
    BY <1>1, <1>2, Joined, ZenonT(60)
  <2> QED BY <1>2, <1>3, <2>1, <2>2 DEF rest
<1>5. Finished' = Finished /\ (Complete' <=> Complete)
  BY <1>3 DEF Finished, Complete, FrontLen
<1>6. PiecesOK'
  BY <1>1, <1>2, <1>3, <1>5 DEF StreamInv, PiecesOK
<1> QED BY <1>1, <1>3, <1>4, <1>5, <1>6 DEF StreamInv, ArriveUnseen

\* recvMsg appends what has arrived to the buffer.
LEMMA RecvKeeps ==
    ASSUME StreamInv, RecvMsg
    PROVE  StreamInv'
<1> PICK k \in 1..Len(wire) :
        /\ buffer' = buffer \o arrived \o SubSeq(wire, 1, k)
        /\ wire' = SubSeq(wire, k + 1, Len(wire))
  BY DEF RecvMsg
<1>1. /\ wire \in Seq(Byte) /\ arrived \in Seq(Byte) /\ buffer \in Seq(Byte)
      /\ Unbroken(rest, uiPDULen, Finished)
  BY DEF StreamInv, PiecesOK
<1>2. buffer \o arrived \in Seq(Byte)
  BY <1>1, ConcatProperties
<1>3. /\ wire' \in Seq(Byte) /\ buffer' \in Seq(Byte)
      /\ buffer' \o wire' = (buffer \o arrived) \o wire
  BY <1>1, <1>2, MoveBytes
<1>4. /\ arrived' = <<>> /\ uiPDULen' = uiPDULen /\ handled' = handled
      /\ pc = "idle" /\ pc' = "loop"
  BY DEF RecvMsg
<1>5. rest' = rest
  <2>1. buffer' \o <<>> = buffer'
    BY <1>3, ConcatEmptySeq
  <2> QED BY <1>3, <1>4, <2>1 DEF rest
<1>6. Finished' = Finished
  BY <1>4 DEF Finished
<1>7. PiecesOK'
  <2>1. arrived' \in Seq(Byte)
    BY <1>4
  <2> QED BY <1>3, <1>4, <2>1 DEF StreamInv, PiecesOK
<1> QED BY <1>1, <1>4, <1>5, <1>6, <1>7 DEF StreamInv, RecvMsg

\* The first message is removed from the buffer: it is finished.
LEMMA RemoveKeeps ==
    ASSUME StreamInv, Complete, RemoveFront, UNCHANGED <<uiPDULen, wire, arrived>>
    PROVE  buffer' \in Seq(Byte) /\ Unbroken(rest', uiPDULen', Finished + 1)
<1>1. /\ wire \in Seq(Byte) /\ arrived \in Seq(Byte) /\ buffer \in Seq(Byte)
      /\ uiPDULen \in Seq(Lengths) /\ Unbroken(rest, uiPDULen, Finished)
  BY DEF StreamInv, PiecesOK
<1>2. /\ Finished \in Nat /\ rest # <<>> /\ rest \in Seq(Byte)
      /\ FrontLen = uiPDULen[Finished + 1] /\ FrontLen \in Nat
  BY FrontIsNext DEF Complete
<1>3. FrontLen \in 1..Len(buffer)
  BY CompleteIsNext
<1>4. buffer' = SubSeq(buffer, FrontLen + 1, Len(buffer))
  BY DEF RemoveFront
<1>5. buffer' \in Seq(Byte) /\ rest' \in Seq(Byte) /\ Shorter(rest', rest, FrontLen)
  BY <1>1, <1>3, <1>4, DropBytes DEF rest
<1>6. Unbroken(rest', uiPDULen, Finished + 1)
  BY <1>1, <1>2, <1>5, RemoveMessage DEF IsLength
<1> QED BY <1>5, <1>6

\* The loop hands a message over and removes it.
LEMMA HandleKeeps ==
    ASSUME StreamInv, HandlePDU
    PROVE  StreamInv'
<1>1. Complete /\ RemoveFront /\ pc = "loop" /\ pc' = "loop"
      /\ UNCHANGED <<uiPDULen, wire, arrived>>
  BY DEF HandlePDU
<1>2. buffer' \in Seq(Byte) /\ Unbroken(rest', uiPDULen', Finished + 1)
  BY <1>1, RemoveKeeps
<1>3. FrontPDU = Finished + 1 /\ Finished \in Nat
  BY <1>1, CompleteIsNext, FrontIsNext DEF Complete
<1>4. handled \in Seq(Nat) /\ handled' = Append(handled, FrontPDU)
  BY DEF HandlePDU, StreamInv, PiecesOK
<1>5. handled' \in Seq(Nat) /\ Len(handled') = Len(handled) + 1
  BY <1>3, <1>4
<1>6. Finished' = Finished + 1
  BY <1>1, <1>4, <1>5 DEF Finished
<1>7. PiecesOK'
  BY <1>1, <1>2, <1>5 DEF StreamInv, PiecesOK
<1> QED BY <1>1, <1>2, <1>6, <1>7 DEF StreamInv, HandlePDU

\* A handler opens a dialog: its message is handed over, and stays for now.
LEMMA ShowKeeps ==
    ASSUME StreamInv, ShowDialog
    PROVE  StreamInv'
<1>1. /\ Complete /\ pc = "loop" /\ pc' = "dialog"
      /\ UNCHANGED <<end, hooked, uiPDULen, wire, arrived, buffer>>
  BY DEF ShowDialog
<1>2. FrontPDU = Finished + 1 /\ Finished \in Nat
  BY <1>1, CompleteIsNext, FrontIsNext DEF Complete
<1>3. handled \in Seq(Nat) /\ handled' = Append(handled, FrontPDU)
  BY DEF ShowDialog, StreamInv, PiecesOK
<1>4. handled' \in Seq(Nat) /\ Len(handled') = Len(handled) + 1 /\ handled' # <<>>
  BY <1>2, <1>3
<1>5. Finished' = Finished
  BY <1>1, <1>3, <1>4 DEF Finished
<1>6. Complete' /\ rest' = rest
  BY <1>1 DEF Complete, FrontLen, rest
<1>7. PiecesOK'
  BY <1>1, <1>4, <1>6 DEF StreamInv, PiecesOK
<1> QED BY <1>1, <1>5, <1>6, <1>7 DEF StreamInv

\* The dialog is closed, and its message removed.
LEMMA CloseKeeps ==
    ASSUME StreamInv, CloseDialog
    PROVE  StreamInv'
<1>1. /\ RemoveFront /\ pc = "dialog" /\ pc' = "loop"
      /\ UNCHANGED <<end, hooked, uiPDULen, wire, arrived, handled>>
  BY DEF CloseDialog
<1>2. Complete
  BY <1>1 DEF StreamInv, PiecesOK
<1>3. buffer' \in Seq(Byte) /\ Unbroken(rest', uiPDULen', Finished + 1)
  BY <1>1, <1>2, RemoveKeeps
<1>4. Finished' = Finished + 1
  BY <1>1 DEF Finished, StreamInv, PiecesOK
<1>5. PiecesOK'
  BY <1>1, <1>3 DEF StreamInv, PiecesOK
<1> QED BY <1>1, <1>3, <1>4, <1>5 DEF StreamInv

-----------------------------------------------------------------------------
\* At the start there is no message and no byte.
LEMMA StreamInitInv == StreamInit => StreamInv
<1> SUFFICES ASSUME StreamInit PROVE StreamInv
  OBVIOUS
<1>1. /\ uiPDULen = <<>> /\ wire = <<>> /\ arrived = <<>> /\ buffer = <<>>
      /\ handled = <<>> /\ pc = "idle"
  BY DEF StreamInit
<1>2. PiecesOK /\ uiPDULen \in Seq(Lengths) /\ Finished = 0
  BY <1>1 DEF PiecesOK, Finished
<1>3. rest = <<>>
  BY <1>1 DEF rest
<1>4. Unbroken(<<>>, <<>>, 0)
  BY DEF Unbroken, Whole, FromTo, InOrder
<1> QED BY <1>1, <1>2, <1>3, <1>4 DEF StreamInv, StreamInit

\* Every step keeps the invariant.
LEMMA StreamNextInv == StreamInv /\ [StreamNext]_streamVars => StreamInv'
<1> SUFFICES ASSUME StreamInv, [StreamNext]_streamVars PROVE StreamInv'
  OBVIOUS
<1>1. CASE HookReadyRead
  BY <1>1 DEF HookReadyRead, StreamInv, PiecesOK, Complete, FrontLen, rest, Finished
<1>2. CASE LoopEnds
  BY <1>2 DEF LoopEnds, StreamInv, PiecesOK, rest, Finished
<1>3. CASE UNCHANGED streamVars
  BY <1>3 DEF streamVars, StreamInv, PiecesOK, Complete, FrontLen, rest, Finished
<1> QED BY <1>1, <1>2, <1>3, SendKeeps, UnseenKeeps, RecvKeeps, HandleKeeps, ShowKeeps,
           CloseKeeps DEF StreamNext, Receive

\* What the invariant says of the bytes is what StreamTypeOK says of them.
LEMMA InvIsTypeOK == StreamInv => StreamTypeOK
<1> SUFFICES ASSUME StreamInv PROVE StreamTypeOK
  OBVIOUS
<1>1. rest \in Seq(Byte) /\ Unbroken(rest, uiPDULen, Finished)
  BY ThreePieces DEF StreamInv, PiecesOK, rest
<1>2. DOMAIN rest = 1..Len(rest)
  BY <1>1
<1>3. WholeMessages
  BY <1>1, <1>2 DEF Unbroken, Whole, WholeMessages, Of, Place, At, sent
<1>4. OneAfterTheOther
  <2>1. FromTo(rest, uiPDULen, Finished) /\ InOrder(rest)
    BY <1>1 DEF Unbroken
  <2>2. ASSUME NEW p \in DOMAIN rest, NEW q \in DOMAIN rest
        PROVE  /\ p <= q => rest[p][1] <= rest[q][1]
               /\ q = p + 1 =>
                      rest[q] \in {<<rest[p][1], rest[p][2] + 1>>, <<rest[p][1] + 1, 1>>}
    BY <1>2, <2>1 DEF InOrder, Of, Place, At
  <2>3. /\ Finished \in 0..sent
        /\ rest = <<>> <=> Finished = sent
        /\ rest # <<>> =>
               /\ rest[1] = <<Finished + 1, 1>>
               /\ rest[Len(rest)] = <<sent, uiPDULen[sent]>>
    BY <2>1 DEF FromTo, At, sent
  <2> QED BY <2>2, <2>3 DEF OneAfterTheOther
<1> QED BY <1>3, <1>4 DEF StreamTypeOK, StreamInv

\* The buffer starts with a message, and what is in the buffer, in the socket
\* and on the wire is the rest of the stream without a gap, however recvMsg
\* is called and whatever arrives while a dialog is open.
THEOREM StreamTypeCorrect == StreamSpec => []StreamTypeOK
<1>1. StreamSpec => []StreamInv
  BY StreamInitInv, StreamNextInv, PTL DEF StreamSpec
<1> QED BY <1>1, InvIsTypeOK, PTL

\* recvMsg makes a queue of messages of the stream of bytes: each is handled
\* once, whole, and in the order in which they were sent.
THEOREM StreamImplementsFifo == StreamSpec => StreamIsFifo
<1>1. StreamInit => fifo!Init
  BY DEF StreamInit, fifo!Init, sent
<1>2. ASSUME StreamInv, [StreamNext]_streamVars
      PROVE  [fifo!Send \/ fifo!Handle]_<<sent, handled>>
  <2> SUFFICES ASSUME StreamNext PROVE [fifo!Send \/ fifo!Handle]_<<sent, handled>>
    BY <1>2 DEF streamVars, sent
  <2>1. CASE SendMsg
    <3>1. uiPDULen \in Seq(Lengths)
      BY <1>2 DEF StreamInv
    <3>2. sent' = sent + 1 /\ handled' = handled
      BY <2>1, <3>1 DEF SendMsg, sent
    <3> QED BY <3>2 DEF fifo!Send
  <2>2. ASSUME Complete, pc = "loop", handled' = Append(handled, FrontPDU),
               uiPDULen' = uiPDULen
        PROVE  fifo!Handle
    <3>1. FrontPDU = Finished + 1 /\ Finished + 1 \in 1..Len(uiPDULen) /\ Finished \in Nat
      BY <1>2, <2>2, CompleteIsNext, FrontIsNext DEF Complete
    <3>2. Finished = Len(handled)
      BY <1>2, <2>2 DEF Finished, StreamInv, PiecesOK
    <3>3. Len(handled) < sent /\ sent' = sent
      BY <1>2, <2>2, <3>1, <3>2 DEF StreamInv, sent
    <3> QED BY <2>2, <3>1, <3>2, <3>3 DEF fifo!Handle
  <2>3. CASE HandlePDU
    BY <2>2, <2>3 DEF HandlePDU
  <2>4. CASE ShowDialog
    BY <2>2, <2>4 DEF ShowDialog
  <2>5. CASE HookReadyRead \/ ArriveUnseen \/ RecvMsg \/ CloseDialog \/ LoopEnds
    BY <2>5 DEF HookReadyRead, ArriveUnseen, RecvMsg, CloseDialog, LoopEnds, sent
  <2> QED BY <2>1, <2>3, <2>4, <2>5 DEF StreamNext, Receive
<1>3. StreamSpec => []StreamInv
  BY StreamInitInv, StreamNextInv, PTL DEF StreamSpec
<1> QED BY <1>1, <1>2, <1>3, PTL DEF StreamSpec, StreamIsFifo, fifo!Spec

-----------------------------------------------------------------------------
(* NetdiskFiles.                                                           *)

\* The paths of u: the user's directory and what may be in it.
Elements == Users \cup Names
Homes(u) ==
    {p \in Seq(Elements) : Len(p) >= 1 /\ p[1] = u /\ \A i \in 2..Len(p) : p[i] \in Names}
Items(u) == {p \in Homes(u) : Len(p) > 1}

-----------------------------------------------------------------------------
(* Paths.                                                                  *)

\* p and then r; t is that, element by element, w is what q has after p, and
\* f is p without its last.
Join(p, r) == p \o r

IsJoin(t, p, r) ==
    /\ t = Join(p, r) /\ Len(t) = Len(p) + Len(r)
    /\ \A i \in 1..Len(p) : t[i] = p[i]
    /\ \A i \in 1..Len(r) : t[Len(p) + i] = r[i]

IsWithin(w, p, q) ==
    /\ w = Within(p, q) /\ Len(w) = Len(q) - Len(p)
    /\ \A i \in 1..Len(w) : w[i] = q[Len(p) + i]

IsFront(f, p) ==
    f = Front(p) /\ Len(f) = Len(p) - 1 /\ \A i \in 1..Len(f) : f[i] = p[i]

\* A prefix, element by element.
LEMMA PrefixIs ==
    ASSUME NEW S, NEW p \in Seq(S), NEW q \in Seq(S)
    PROVE  IsPrefix(p, q) <=> Len(p) <= Len(q) /\ \A i \in 1..Len(p) : p[i] = q[i]
<1> PICK m \in Nat : m = Len(p)
  OBVIOUS
<1> PICK n \in Nat : n = Len(q)
  OBVIOUS
<1>1. /\ SubSeq(p, 1, m) \in Seq(S) /\ Len(SubSeq(p, 1, m)) = m
      /\ \A i \in 1..m : SubSeq(p, 1, m)[i] = p[i]
  OBVIOUS
<1>2. CASE m <= n
  <2>1. /\ SubSeq(q, 1, m) \in Seq(S) /\ Len(SubSeq(q, 1, m)) = m
        /\ \A i \in 1..m : SubSeq(q, 1, m)[i] = q[i]
    BY <1>2
  <2>2. (\A i \in 1..m : p[i] = q[i]) => SubSeq(p, 1, m) = SubSeq(q, 1, m)
    <3> SUFFICES ASSUME \A i \in 1..m : p[i] = q[i] PROVE SubSeq(p, 1, m) = SubSeq(q, 1, m)
      OBVIOUS
    <3> QED BY <1>1, <2>1, SeqEqual
  <2>3. SubSeq(p, 1, m) = SubSeq(q, 1, m) => \A i \in 1..m : p[i] = q[i]
    BY <1>1, <2>1
  <2> QED BY <1>2, <2>2, <2>3 DEF IsPrefix
<1> QED BY <1>2 DEF IsPrefix

\* Front, element by element.
LEMMA FrontIs ==
    ASSUME NEW S, NEW p \in Seq(S), Len(p) >= 1
    PROVE  /\ Front(p) \in Seq(S) /\ Len(Front(p)) = Len(p) - 1
           /\ \A i \in 1..Len(p) - 1 : Front(p)[i] = p[i]
<1>n. PICK n \in Nat : n = Len(p) - 1
  OBVIOUS
<1>1. n \in 0..Len(p)
  BY <1>n
<1>2. /\ SubSeq(p, 1, n) \in Seq(S) /\ Len(SubSeq(p, 1, n)) = n
      /\ \A i \in 1..n : SubSeq(p, 1, n)[i] = p[i]
  BY <1>1
<1> QED BY <1>2, <1>n DEF Front

\* The first n elements of p.
LEMMA CutIs ==
    ASSUME NEW S, NEW p \in Seq(S), NEW n \in 0..Len(p)
    PROVE  /\ SubSeq(p, 1, n) \in Seq(S) /\ Len(SubSeq(p, 1, n)) = n
           /\ \A i \in 1..n : SubSeq(p, 1, n)[i] = p[i]
OBVIOUS

\* What q has after p, element by element.
LEMMA WithinIs ==
    ASSUME NEW S, NEW p \in Seq(S), NEW q \in Seq(S), Len(p) <= Len(q)
    PROVE  /\ Within(p, q) \in Seq(S) /\ Len(Within(p, q)) = Len(q) - Len(p)
           /\ \A i \in 1..Len(q) - Len(p) : Within(p, q)[i] = q[Len(p) + i]
<1> PICK m \in Nat : m = Len(p)
  OBVIOUS
<1> PICK n \in Nat : n = Len(q)
  OBVIOUS
<1>1. m <= n /\ \A i \in m + 1..n : q[i] \in S
  OBVIOUS
<1>2. /\ SubSeq(q, m + 1, n) \in Seq(S)
      /\ Len(SubSeq(q, m + 1, n)) = n - m
      /\ \A i \in 1..n - m : SubSeq(q, m + 1, n)[i] = q[m + i]
  BY <1>1
<1> QED BY <1>2 DEF Within

\* The same of Join, WithinOf and Front, as one fact each.
LEMMA JoinOf ==
    ASSUME NEW S, NEW p \in Seq(S), NEW r \in Seq(S)
    PROVE  Join(p, r) \in Seq(S) /\ IsJoin(Join(p, r), p, r)
BY DEF Join, IsJoin

\* What WithinIs says, as one fact.
LEMMA WithinOf ==
    ASSUME NEW S, NEW p \in Seq(S), NEW q \in Seq(S), Len(p) <= Len(q)
    PROVE  Within(p, q) \in Seq(S) /\ IsWithin(Within(p, q), p, q)
BY WithinIs DEF IsWithin

\* What FrontIs says, as one fact.
LEMMA FrontOf ==
    ASSUME NEW S, NEW p \in Seq(S), Len(p) >= 1
    PROVE  Front(p) \in Seq(S) /\ IsFront(Front(p), p)
BY FrontIs DEF IsFront

\* The places of two sequences, one after the other.
LEMMA PlacesOf ==
    ASSUME NEW S, NEW p \in Seq(S), NEW r \in Seq(S), NEW i \in 1..Len(p) + Len(r)
    PROVE  i \in 1..Len(p) \/ \E j \in 1..Len(r) : i = Len(p) + j
<1>1. CASE i > Len(p)
  <2>1. i - Len(p) \in 1..Len(r) /\ i = Len(p) + (i - Len(p))
    BY <1>1
  <2> QED BY <2>1
<1>2. CASE i <= Len(p)
  BY <1>2
<1> QED BY <1>1, <1>2

\* p, and what q has after p, is q.
LEMMA JoinWithin ==
    ASSUME NEW S, NEW p \in Seq(S), NEW q \in Seq(S), IsPrefix(p, q)
    PROVE  Join(p, Within(p, q)) = q
<1>1. Len(p) <= Len(q) /\ \A i \in 1..Len(p) : p[i] = q[i]
  BY PrefixIs
<1>2. PICK w \in Seq(S) : w = Within(p, q) /\ IsWithin(w, p, q)
  BY <1>1, WithinOf
<1>3. PICK t \in Seq(S) : t = Join(p, w) /\ IsJoin(t, p, w)
  BY JoinOf
<1>4. ASSUME NEW i \in 1..Len(p) + Len(w) PROVE t[i] = q[i]
  <2>1. CASE i \in 1..Len(p)
    BY <2>1, <1>1, <1>3 DEF IsJoin
  <2>2. CASE \E j \in 1..Len(w) : i = Len(p) + j
    BY <2>2, <1>2, <1>3 DEF IsJoin, IsWithin
  <2> QED BY <2>1, <2>2, PlacesOf
<1>5. t = q
  <2>1. Len(t) = Len(q) /\ Len(t) = Len(p) + Len(w)
    BY <1>2, <1>3 DEF IsJoin, IsWithin
  <2> QED BY <2>1, <1>4, SeqEqual
<1> QED BY <1>2, <1>3, <1>5

\* What p and r have after p is r.
LEMMA WithinJoin ==
    ASSUME NEW S, NEW p \in Seq(S), NEW r \in Seq(S)
    PROVE  IsPrefix(p, Join(p, r)) /\ Within(p, Join(p, r)) = r
<1>1. PICK q \in Seq(S) : q = Join(p, r) /\ IsJoin(q, p, r)
  BY JoinOf
<1>2. Len(p) <= Len(q) /\ \A i \in 1..Len(p) : q[i] = p[i]
  BY <1>1 DEF IsJoin
<1>3. IsPrefix(p, q)
  BY <1>2, PrefixIs
<1>4. PICK w \in Seq(S) : w = Within(p, q) /\ IsWithin(w, p, q)
  BY <1>2, WithinOf
<1>5. w = r
  <2>1. Len(w) = Len(r)
    BY <1>1, <1>4 DEF IsJoin, IsWithin
  <2>2. \A i \in 1..Len(w) : w[i] = r[i]
    BY <2>1, <1>1, <1>4 DEF IsJoin, IsWithin
  <2> QED BY <2>1, <2>2, SeqEqual
<1> QED BY <1>1, <1>3, <1>4, <1>5

\* The last element of p and r is that of r.
LEMMA FrontJoin ==
    ASSUME NEW S, NEW p \in Seq(S), NEW r \in Seq(S), Len(r) >= 1
    PROVE  Front(Join(p, r)) = Join(p, Front(r))
<1>1. PICK q \in Seq(S) : q = Join(p, r) /\ IsJoin(q, p, r)
  BY JoinOf
<1>2. PICK f \in Seq(S) : f = Front(r) /\ IsFront(f, r)
  BY FrontOf
<1>3. Len(q) >= 1
  BY <1>1 DEF IsJoin
<1>4. PICK g \in Seq(S) : g = Front(q) /\ IsFront(g, q)
  BY <1>3, FrontOf
<1>5. PICK t \in Seq(S) : t = Join(p, f) /\ IsJoin(t, p, f)
  BY JoinOf
<1>6. Len(g) = Len(p) + Len(f) /\ 1..Len(f) \subseteq 1..Len(r)
  BY <1>1, <1>2, <1>4 DEF IsJoin, IsFront
<1>7. ASSUME NEW i \in 1..Len(p) + Len(f) PROVE g[i] = t[i]
  <2>0. g[i] = q[i]
    BY <1>4, <1>6 DEF IsFront
  <2>1. CASE i \in 1..Len(p)
    BY <2>0, <2>1, <1>1, <1>5 DEF IsJoin
  <2>2. CASE \E j \in 1..Len(f) : i = Len(p) + j
    <3>1. PICK j \in 1..Len(f) : i = Len(p) + j
      BY <2>2
    <3>2. q[i] = r[j]
      BY <3>1, <1>1, <1>6 DEF IsJoin
    <3>3. t[i] = f[j]
      BY <3>1, <1>5 DEF IsJoin
    <3>4. f[j] = r[j]
      BY <1>2 DEF IsFront
    <3> QED BY <2>0, <3>2, <3>3, <3>4
  <2> QED BY <2>1, <2>2, PlacesOf
<1>8. g = t
  <2>1. Len(g) = Len(t) /\ Len(g) = Len(p) + Len(f)
    BY <1>5, <1>6 DEF IsJoin
  <2> QED BY <2>1, <1>7, SeqEqual
<1> QED BY <1>1, <1>2, <1>4, <1>5, <1>8

\* Prefixes: of itself, of what another one is a prefix of, without the last.
LEMMA PrefixOfSelf == ASSUME NEW S, NEW p \in Seq(S) PROVE IsPrefix(p, p)
BY DEF IsPrefix

\* Being a prefix is transitive.
LEMMA PrefixOfPrefix ==
    ASSUME NEW S, NEW p \in Seq(S), NEW q \in Seq(S), NEW r \in Seq(S),
           IsPrefix(p, q), IsPrefix(q, r)
    PROVE  IsPrefix(p, r)
<1>1. Len(p) <= Len(q) /\ \A i \in 1..Len(p) : p[i] = q[i]
  BY PrefixIs
<1>2. Len(q) <= Len(r) /\ \A i \in 1..Len(q) : q[i] = r[i]
  BY PrefixIs
<1>3. Len(p) <= Len(r) /\ \A i \in 1..Len(p) : p[i] = r[i]
  BY <1>1, <1>2
<1> QED BY <1>3, PrefixIs

\* Prefixes of a sequence without its last element.
LEMMA PrefixOfFront ==
    ASSUME NEW S, NEW p \in Seq(S), NEW q \in Seq(S), Len(q) >= 1
    PROVE  /\ IsPrefix(Front(q), q)
           /\ IsPrefix(p, Front(q)) => IsPrefix(p, q)
           /\ IsPrefix(p, q) => p = q \/ IsPrefix(p, Front(q))
<1>1. PICK f \in Seq(S) : f = Front(q) /\ IsFront(f, q)
  BY FrontOf
<1>2. IsPrefix(f, q)
  <2>1. Len(f) <= Len(q) /\ \A i \in 1..Len(f) : f[i] = q[i]
    BY <1>1 DEF IsFront
  <2> QED BY <2>1, PrefixIs
<1>3. IsPrefix(p, f) => IsPrefix(p, q)
  BY <1>2, PrefixOfPrefix
<1>4. ASSUME IsPrefix(p, q), p # q PROVE IsPrefix(p, f)
  <2>1. Len(p) <= Len(q) /\ \A i \in 1..Len(p) : p[i] = q[i]
    BY <1>4, PrefixIs
  <2>2. Len(p) # Len(q)
    BY <1>4, <2>1, SeqEqual
  <2>3. Len(p) <= Len(f) /\ \A i \in 1..Len(p) : p[i] = f[i]
    BY <1>1, <2>1, <2>2 DEF IsFront
  <2> QED BY <2>3, PrefixIs
<1> QED BY <1>1, <1>2, <1>3, <1>4

\* A set of numbers has a least one, and one below a bound has a greatest.
LEMMA LeastOf ==
    ASSUME NEW S \in SUBSET Nat, S # {}
    PROVE  \E m \in S : \A n \in S : m <= n
<1> DEFINE below == {0..n : n \in S}
<1>1. below \subseteq FiniteSubsetsOf(Nat) /\ below # {}
  <2>1. \A n \in S : IsFiniteSet(0..n) /\ 0..n \in SUBSET Nat
    BY FS_Interval
  <2> QED BY <2>1 DEF FiniteSubsetsOf
<1>2. \E b \in below : \A c \in below : <<c, b>> \notin StrictSubsetOrdering(Nat)
  <2> HIDE DEF below
  <2> QED BY <1>1, WFMin, FS_StrictSubsetOrderingWellFounded
<1>3. PICK m \in S : \A n \in S : <<0..n, 0..m>> \notin StrictSubsetOrdering(Nat)
  BY <1>2
<1>4. \A n \in S : n < m => <<0..n, 0..m>> \in StrictSubsetOrdering(Nat)
  BY DEF StrictSubsetOrdering
<1>5. \A n \in S : ~(n < m) /\ n \in Nat /\ m \in Nat
  BY <1>3, <1>4
<1> QED BY <1>5

\* A set of numbers below a bound has a greatest one.
LEMMA GreatestOf ==
    ASSUME NEW S \in SUBSET Nat, S # {}, NEW b \in Nat, \A n \in S : n <= b
    PROVE  \E m \in S : \A n \in S : n <= m
<1> DEFINE T == {b - n : n \in S}
<1>1. T \in SUBSET Nat /\ T # {}
  OBVIOUS
<1>2. PICK d \in T : \A e \in T : d <= e
  <2> HIDE DEF T
  <2> QED BY <1>1, LeastOf
<1>3. PICK m \in S : d = b - m
  OBVIOUS
<1>4. \A n \in S : b - m <= b - n
  BY <1>2, <1>3
<1>5. \A n \in S : n <= m
  BY <1>4
<1> QED BY <1>5

\* What the paths of a file system are: they belong to a user.
LEMMA TreePaths ==
    ASSUME NEW t, IsTree(t), NEW q \in DOMAIN t
    PROVE  /\ q \in Seq(Elements) /\ Len(q) >= 1 /\ Len(q) <= MaxDepth
           /\ q[1] \in Users /\ q \in Homes(q[1])
<1>1. q \in Paths
  BY DEF IsTree
<1>2. PICK n \in 1..MaxDepth :
        /\ q \in [1..n -> Users \cup Names]
        /\ q[1] \in Users /\ \A i \in 2..n : q[i] \in Names
  BY <1>1 DEF Paths
<1>3. q \in Seq(Elements) /\ Len(q) = n
  <2>1. n \in Nat
    BY FilesAssumption
  <2> QED BY <1>2, <2>1 DEF Elements
<1>4. n >= 1 /\ n <= MaxDepth
  BY FilesAssumption
<1> QED BY <1>2, <1>3, <1>4 DEF Homes

\* A path of a user that is short enough is one of Paths.
LEMMA PathsAre ==
    ASSUME NEW u \in Users, NEW p \in Homes(u), Len(p) <= MaxDepth
    PROVE  p \in Paths
<1>1. p \in Seq(Elements) /\ p \in [1..Len(p) -> Elements] /\ Len(p) \in 1..MaxDepth
  BY FilesAssumption DEF Homes
<1>2. p[1] \in Users /\ \A i \in 2..Len(p) : p[i] \in Names
  BY DEF Homes
<1> QED BY <1>1, <1>2 DEF Paths, Elements

\* What is above a path that exists is a directory.
LEMMA TreeClosed ==
    ASSUME NEW t, IsTree(t), NEW q \in DOMAIN t, NEW p \in Seq(Elements), Len(p) >= 1,
           IsPrefix(p, q)
    PROVE  p \in DOMAIN t /\ (p # q => t[p] = Dir)
<1> SUFFICES ASSUME p # q PROVE p \in DOMAIN t /\ t[p] = Dir
  OBVIOUS
<1> DEFINE Below == {f \in DOMAIN t : IsPrefix(p, f) /\ f # p}
           Lens == {Len(f) : f \in Below}
<1>1. Lens \in SUBSET Nat
  <2>1. \A f \in DOMAIN t : Len(f) \in Nat
    BY TreePaths
  <2> QED BY <2>1
<1>2. Lens # {}
  OBVIOUS
<1>3. PICK f \in Below : \A g \in Below : Len(f) <= Len(g)
  <2>1. \E m \in Lens : \A n \in Lens : m <= n
    <3> HIDE DEF Lens
    <3> QED BY <1>1, <1>2, LeastOf
  <2> QED BY <2>1
<1>4. f \in Seq(Elements) /\ Len(f) >= 1 /\ Len(f) > 1
  <2>1. f \in Seq(Elements) /\ Len(f) >= 1
    BY TreePaths
  <2>2. Len(p) <= Len(f) /\ \A i \in 1..Len(p) : p[i] = f[i]
    BY <2>1, PrefixIs
  <2>3. Len(p) # Len(f)
    BY <2>1, <2>2, SeqEqual
  <2> QED BY <2>1, <2>2, <2>3
<1>5. Front(f) \in DOMAIN t /\ t[Front(f)] = Dir
  BY <1>4 DEF IsTree
<1>6. IsPrefix(p, Front(f))
  BY <1>4, PrefixOfFront
<1>7. ~(Len(f) <= Len(Front(f)))
  BY <1>4, FrontOf DEF IsFront
<1>8. Front(f) = p
  BY <1>3, <1>5, <1>6, <1>7
<1> QED BY <1>5, <1>8

-----------------------------------------------------------------------------
(* Users' paths.                                                           *)

\* A path of u begins with u, and is below the directory of u or that.
LEMMA HomeIs ==
    ASSUME NEW u \in Users, NEW p \in Homes(u)
    PROVE  /\ p \in Seq(Elements) /\ Len(p) >= 1 /\ p[1] = u
           /\ p # <<u>> => p \in Items(u)
           /\ IsPrefix(<<u>>, p)
<1>1. p \in Seq(Elements) /\ Len(p) \in Nat /\ Len(p) >= 1 /\ p[1] = u
  BY DEF Homes
<1>2. PICK h : h = <<u>> /\ h \in Seq(Elements) /\ Len(h) = 1 /\ h[1] = u
  <2>1. <<u>> \in Seq(Elements) /\ Len(<<u>>) = 1 /\ <<u>>[1] = u
    BY DEF Elements
  <2> QED BY <2>1
<1>3. p # h => Len(p) > 1
  <2>1. ASSUME Len(p) = 1 PROVE p = h
    BY <1>1, <1>2, <2>1, SeqEqual
  <2>2. \A n \in Nat : n >= 1 => n = 1 \/ n > 1
    OBVIOUS
  <2>3. Len(p) = 1 \/ Len(p) > 1
    BY <1>1, <2>2, Zenon
  <2> QED BY <2>1, <2>3
<1>4. IsPrefix(h, p)
  <2>1. Len(h) <= Len(p) /\ \A i \in 1..Len(h) : i = 1
    BY <1>1, <1>2
  <2>2. \A i \in 1..Len(h) : h[i] = p[i]
    BY <1>1, <1>2, <2>1
  <2> QED BY <1>1, <1>2, <2>1, <2>2, PrefixIs
<1>5. p # h => p \in Items(u)
  BY <1>3 DEF Items
<1> QED BY <1>1, <1>2, <1>4, <1>5

\* The directory of u is a path of u.
LEMMA RootIs == ASSUME NEW u \in Users PROVE <<u>> \in Homes(u) /\ Len(<<u>>) = 1
BY DEF Homes, Elements

\* A path of u and one more name.
LEMMA AppendIs ==
    ASSUME NEW u \in Users, NEW c \in Homes(u), NEW n \in Names
    PROVE  /\ Append(c, n) \in Items(u) /\ Front(Append(c, n)) = c
           /\ Last(Append(c, n)) = n /\ Len(Append(c, n)) = Len(c) + 1
<1>1. PICK p \in Seq(Elements) :
        /\ p = Append(c, n) /\ Len(p) = Len(c) + 1 /\ p[Len(c) + 1] = n
        /\ \A i \in 1..Len(c) : p[i] = c[i]
  <2>1. c \in Seq(Elements) /\ n \in Elements
    BY DEF Elements, Homes
  <2>2. /\ Append(c, n) \in Seq(Elements) /\ Len(Append(c, n)) = Len(c) + 1
        /\ Append(c, n)[Len(c) + 1] = n
        /\ \A i \in 1..Len(c) : Append(c, n)[i] = c[i]
    BY <2>1
  <2> QED BY <2>2
<1>2. Len(c) >= 1 /\ c[1] = u /\ \A i \in 2..Len(c) : c[i] \in Names
  BY DEF Homes
<1>3. p \in Homes(u)
  <2>1. p[1] = u
    BY <1>1, <1>2
  <2>2. \A i \in 2..Len(p) : i \in 2..Len(c) \/ i = Len(c) + 1
    BY <1>1
  <2>3. \A i \in 2..Len(p) : p[i] \in Names
    BY <1>1, <1>2, <2>2
  <2>4. Len(p) >= 1
    BY <1>1, <1>2
  <2> QED BY <2>1, <2>3, <2>4 DEF Homes
<1>4. Len(p) > 1
  BY <1>1, <1>2
<1>5. PICK f \in Seq(Elements) : f = Front(p) /\ IsFront(f, p)
  BY <1>4, FrontOf
<1>6. f = c
  <2>1. Len(f) = Len(c) /\ \A i \in 1..Len(f) : f[i] = c[i]
    BY <1>1, <1>5 DEF IsFront
  <2>2. c \in Seq(Elements)
    BY DEF Homes
  <2> QED BY <2>1, <2>2, SeqEqual
<1>7. Last(p) = n
  BY <1>1 DEF Last
<1> QED BY <1>1, <1>3, <1>4, <1>5, <1>6, <1>7 DEF Items

\* A path of u without its last name.
LEMMA ItemIs ==
    ASSUME NEW u \in Users, NEW p \in Items(u)
    PROVE  /\ p \in Homes(u) /\ Len(p) > 1 /\ Front(p) \in Homes(u)
           /\ Last(p) \in Names /\ p = Append(Front(p), Last(p))
<1>1. p \in Homes(u) /\ Len(p) > 1 /\ p \in Seq(Elements)
  BY DEF Items, Homes
<1>2. p[1] = u /\ \A i \in 2..Len(p) : p[i] \in Names
  BY <1>1 DEF Homes
<1>3. PICK f \in Seq(Elements) : f = Front(p) /\ IsFront(f, p)
  BY <1>1, FrontOf
<1>4. f \in Homes(u)
  BY <1>1, <1>2, <1>3 DEF IsFront, Homes
<1>5. Last(p) \in Names
  BY <1>1, <1>2 DEF Last
<1>6. PICK a \in Items(u) : a = Append(f, Last(p)) /\ Len(a) = Len(f) + 1
  BY <1>4, <1>5, AppendIs
<1>7. a = p
  <2>1. a \in Seq(Elements) /\ Len(a) = Len(p)
    BY <1>3, <1>6 DEF Items, Homes, IsFront
  <2>2. a[Len(f) + 1] = Last(p) /\ \A i \in 1..Len(f) : a[i] = f[i]
    BY <1>5, <1>6 DEF Elements
  <2>3. \A i \in 1..Len(a) : a[i] = p[i]
    BY <1>3, <2>1, <2>2, <1>1 DEF IsFront, Last
  <2> QED BY <2>1, <2>3, <1>1, SeqEqual
<1> QED BY <1>1, <1>3, <1>4, <1>5, <1>6, <1>7

\* What is above a path of u, and below one, is a path of u.
LEMMA PrefixIsHome ==
    ASSUME NEW u \in Users, NEW p \in Seq(Elements), NEW q \in Homes(u),
           IsPrefix(p, q), Len(p) >= 1
    PROVE  p \in Homes(u)
<1>1. Len(p) <= Len(q) /\ (\A i \in 1..Len(p) : p[i] = q[i]) /\ q \in Seq(Elements)
  BY PrefixIs DEF Homes
<1>2. p[1] = u
  BY <1>1 DEF Homes
<1>3. \A i \in 2..Len(p) : p[i] \in Names
  BY <1>1 DEF Homes
<1> QED BY <1>2, <1>3 DEF Homes

\* What goes on from a path of u begins with u.
LEMMA LongerIsHome ==
    ASSUME NEW u \in Users, NEW p \in Homes(u), NEW q \in Seq(Elements), IsPrefix(p, q)
    PROVE  q[1] = u
<1>1. Len(p) <= Len(q) /\ (\A i \in 1..Len(p) : p[i] = q[i]) /\ p \in Seq(Elements)
  BY PrefixIs DEF Homes
<1>2. p[1] = u /\ Len(p) >= 1
  BY DEF Homes
<1> QED BY <1>1, <1>2

\* A path of u and names is one of u, and so are the names after it.
LEMMA JoinIsHome ==
    ASSUME NEW u \in Users, NEW p \in Homes(u), NEW r \in Seq(Names)
    PROVE  Join(p, r) \in Homes(u)
<1>1. p \in Seq(Elements) /\ r \in Seq(Elements)
  BY DEF Homes, Elements
<1>2. PICK q \in Seq(Elements) : q = Join(p, r) /\ IsJoin(q, p, r)
  BY <1>1, JoinOf
<1>3. q[1] = u /\ Len(q) >= 1
  BY <1>1, <1>2 DEF Homes, IsJoin
<1>4. ASSUME NEW i \in 2..Len(q) PROVE q[i] \in Names
  <2>1. i \in 1..Len(p) + Len(r)
    BY <1>2 DEF IsJoin
  <2>2. CASE i \in 1..Len(p)
    BY <2>2, <1>2 DEF Homes, IsJoin
  <2>3. CASE \E j \in 1..Len(r) : i = Len(p) + j
    BY <2>3, <1>2 DEF IsJoin
  <2> QED BY <1>1, <2>1, <2>2, <2>3, PlacesOf
<1> QED BY <1>2, <1>3, <1>4 DEF Homes

\* Between two paths of u there are names.
LEMMA WithinIsNames ==
    ASSUME NEW u \in Users, NEW p \in Homes(u), NEW q \in Homes(u), IsPrefix(p, q)
    PROVE  Within(p, q) \in Seq(Names) /\ Len(Within(p, q)) = Len(q) - Len(p)
<1>1. p \in Seq(Elements) /\ q \in Seq(Elements) /\ Len(p) >= 1
  BY DEF Homes
<1>2. Len(p) <= Len(q)
  BY <1>1, PrefixIs
<1>3. PICK w \in Seq(Elements) : w = Within(p, q) /\ IsWithin(w, p, q)
  BY <1>1, <1>2, WithinOf
<1>4. \A i \in 1..Len(w) : w[i] \in Names
  <2> SUFFICES ASSUME NEW i \in 1..Len(w) PROVE w[i] \in Names
    OBVIOUS
  <2>1. w[i] = q[Len(p) + i] /\ Len(p) + i \in 2..Len(q)
    BY <1>1, <1>3 DEF IsWithin
  <2>2. \A j \in 2..Len(q) : q[j] \in Names
    BY DEF Homes
  <2> QED BY <2>1, <2>2
<1>5. w \in Seq(Names)
  BY <1>4
<1> QED BY <1>3, <1>5 DEF IsWithin

-----------------------------------------------------------------------------
(* The file system stays a tree.                                           *)

\* A path that can be made is in a directory.
LEMMA ParentIs ==
    ASSUME NEW S, NEW p \in Seq(S), HasParent(p), Len(p) > 1
    PROVE  Front(p) \in DOMAIN fs /\ fs[Front(p)] = Dir
<1>1. PICK n \in Nat : n = Len(p) /\ n > 1
  OBVIOUS
<1>2. \A k \in Nat : k > 1 => k # 1
  OBVIOUS
<1>3. Len(p) # 1
  BY <1>1, <1>2, Zenon
<1> QED BY <1>3 DEF HasParent, IsDir, Exists

\* After mkdir.
LEMMA TreeMkdir ==
    ASSUME IsTree(fs), NEW u \in Users, NEW p \in Homes(u), Len(p) <= MaxDepth,
           HasParent(p)
    PROVE  IsTree(Over([q \in {p} |-> Dir], fs))
<1> DEFINE t == Over([q \in {p} |-> Dir], fs)
<1>1. DOMAIN t = {p} \cup DOMAIN fs /\ \A q \in DOMAIN t : t[q] = IF q = p THEN Dir ELSE fs[q]
  BY DEF Over
<1>2. p \in Paths
  BY PathsAre
<1>3. DOMAIN t \subseteq Paths /\ \A q \in DOMAIN t : t[q] \in {Dir} \cup Contents
  BY <1>1, <1>2 DEF IsTree
<1>4. \A q \in DOMAIN t : Len(q) > 1 => Front(q) \in DOMAIN t /\ t[Front(q)] = Dir
  <2>1. p \in Seq(Elements)
    BY HomeIs
  <2>2. Len(p) > 1 => Front(p) \in DOMAIN fs /\ fs[Front(p)] = Dir
    BY <2>1, ParentIs
  <2>3. \A q \in DOMAIN fs : Len(q) > 1 => Front(q) \in DOMAIN fs /\ fs[Front(q)] = Dir
    BY DEF IsTree
  <2>4. \A q \in DOMAIN t : q = p \/ q \in DOMAIN fs
    BY <1>1
  <2>5. \A q \in DOMAIN fs : fs[q] = Dir => q \in DOMAIN t /\ t[q] = Dir
    BY <1>1
  <2> HIDE DEF t
  <2> QED BY <2>2, <2>3, <2>4, <2>5
<1> HIDE DEF t
<1>5. IsTree(t)
  BY <1>3, <1>4 DEF IsTree
<1> QED BY <1>5 DEF t

\* After removeRecursively, whatever it left.
LEMMA TreeDelete ==
    ASSUME IsTree(fs), NEW u \in Users, NEW p \in Items(u), NEW kept \in SUBSET Under(p),
           \A q \in kept : q = p \/ Front(q) \in kept
    PROVE  IsTree([q \in (DOMAIN fs \ Under(p)) \cup kept |-> fs[q]])
<1> DEFINE D == (DOMAIN fs \ Under(p)) \cup kept
           t == [q \in D |-> fs[q]]
<1>1. DOMAIN t = D /\ D \subseteq DOMAIN fs /\ \A q \in D : t[q] = fs[q]
  BY DEF Under
<1>2. ASSUME NEW q \in D, Len(q) > 1 PROVE Front(q) \in D /\ fs[Front(q)] = Dir
  <2>1. Front(q) \in DOMAIN fs /\ fs[Front(q)] = Dir
    BY <1>1, <1>2 DEF IsTree
  <2>2. q \in Seq(Elements) /\ Len(q) >= 1 /\ p \in Seq(Elements)
    BY <1>1, TreePaths, HomeIs, ItemIs
  <2>3. CASE q \notin Under(p)
    <3>1. ~IsPrefix(p, Front(q))
      BY <1>1, <2>2, <2>3, PrefixOfFront DEF Under
    <3> QED BY <2>1, <3>1 DEF Under
  <2>4. CASE q = p
    <3>1. Len(Front(q)) < Len(p)
      BY <2>2, <2>4, FrontOf DEF IsFront
    <3>2. ~IsPrefix(p, Front(q))
      BY <3>1, <2>2, FrontOf, PrefixIs
    <3> QED BY <2>1, <3>2 DEF Under
  <2>5. CASE q \in kept /\ q # p
    BY <2>1, <2>5
  <2> QED BY <2>3, <2>4, <2>5
<1>3. D \subseteq Paths /\ \A q \in D : fs[q] \in {Dir} \cup Contents
  BY <1>1 DEF IsTree
<1> HIDE DEF D
<1>4. IsTree(t)
  BY <1>1, <1>2, <1>3 DEF IsTree
<1> QED BY <1>4 DEF t, D

\* Where the path q goes when old is renamed to new.
Goes(old, new, q) == Join(new, Within(old, q))

\* What is renamed goes below the new path, and stays below its own directory.
LEMMA GoesTo ==
    ASSUME IsTree(fs), NEW u \in Users, NEW w \in Users,
           NEW old \in Homes(u), NEW new \in Homes(w), NEW q \in Under(old)
    PROVE  /\ Goes(old, new, q) \in Homes(w) /\ q \in Homes(u)
           /\ Len(Goes(old, new, q)) = Len(new) + Len(q) - Len(old)
           /\ IsPrefix(new, Goes(old, new, q))
           /\ Join(old, Within(new, Goes(old, new, q))) = q
           /\ q # old => /\ Front(q) \in Under(old) /\ fs[Front(q)] = Dir
                         /\ Front(Goes(old, new, q)) = Goes(old, new, Front(q))
           /\ q = old => Goes(old, new, q) = new
<1>1. /\ old \in Seq(Elements) /\ Len(old) >= 1 /\ new \in Seq(Elements) /\ Len(new) >= 1
      /\ q \in Seq(Elements) /\ IsPrefix(old, q) /\ q \in DOMAIN fs
  BY TreePaths DEF Homes, Under
<1>2. q \in Homes(u)
  <2>1. q[1] = u
    BY <1>1, LongerIsHome
  <2> QED BY <1>1, <2>1, TreePaths
<1>3. PICK r \in Seq(Names) : r = Within(old, q) /\ Len(r) = Len(q) - Len(old)
  BY <1>1, <1>2, WithinIsNames
<1>4. r \in Seq(Elements)
  BY DEF Elements
<1>5. Join(new, r) \in Homes(w) /\ Len(Join(new, r)) = Len(new) + Len(r)
  BY <1>1, <1>4, JoinIsHome, JoinOf DEF IsJoin
<1>6. IsPrefix(new, Join(new, r)) /\ Within(new, Join(new, r)) = r
  BY <1>1, <1>4, WithinJoin
<1>7. Join(old, r) = q
  BY <1>1, <1>3, JoinWithin
<1>8. ASSUME q # old
      PROVE  /\ Front(q) \in Under(old) /\ fs[Front(q)] = Dir
             /\ Front(Join(new, r)) = Join(new, Within(old, Front(q)))
  <2>1. IsPrefix(old, Front(q))
    BY <1>1, <1>8, TreePaths, PrefixOfFront
  <2>2. Len(r) >= 1 /\ Len(q) > 1
    <3>1. Len(old) <= Len(q) /\ \A i \in 1..Len(old) : old[i] = q[i]
      BY <1>1, PrefixIs
    <3>2. Len(old) # Len(q)
      BY <1>1, <1>8, <3>1, SeqEqual
    <3> QED BY <1>1, <1>3, <3>1, <3>2
  <2>3. Front(q) \in DOMAIN fs /\ fs[Front(q)] = Dir
    BY <1>1, <2>2 DEF IsTree
  <2>4. Front(r) \in Seq(Elements) /\ Front(q) = Join(old, Front(r))
    BY <1>1, <1>4, <1>7, <2>2, FrontJoin, FrontOf
  <2>5. Within(old, Front(q)) = Front(r)
    BY <1>1, <2>4, WithinJoin
  <2>6. Front(Join(new, r)) = Join(new, Front(r))
    BY <1>1, <1>4, <2>2, FrontJoin
  <2> QED BY <2>1, <2>3, <2>5, <2>6 DEF Under
<1>9. ASSUME q = old PROVE Join(new, r) = new
  <2>1. r = <<>>
    BY <1>1, <1>3, <1>9
  <2> QED BY <1>1, <2>1 DEF Join
<1> QED BY <1>2, <1>3, <1>5, <1>6, <1>7, <1>8, <1>9 DEF Goes

\* What the file system is after a rename, path by path.
LEMMA MovedIs ==
    ASSUME IsTree(fs), NEW u \in Users, NEW w \in Users,
           NEW old \in Items(u), NEW new \in Homes(w), CanRename(old, new)
    PROVE  /\ DOMAIN Moved(old, new) =
                (DOMAIN fs \ Under(old)) \cup {Goes(old, new, q) : q \in Under(old)}
           /\ \A q \in DOMAIN fs \ Under(old) : Moved(old, new)[q] = fs[q]
           /\ \A q \in Under(old) : Moved(old, new)[Goes(old, new, q)] = fs[q]
<1> DEFINE D == (DOMAIN fs \ Under(old)) \cup {Goes(old, new, q) : q \in Under(old)}
<1>0. old \in Homes(u) /\ new \in Homes(w) /\ new \in Seq(Elements) /\ Len(new) >= 1
  BY ItemIs, HomeIs
<1>1. /\ DOMAIN Moved(old, new) = D
      /\ \A q \in D : Moved(old, new)[q] =
            IF IsPrefix(new, q) THEN fs[Join(old, Within(new, q))] ELSE fs[q]
  BY DEF Moved, Goes, Join
<1>2. ASSUME NEW q \in DOMAIN fs \ Under(old) PROVE Moved(old, new)[q] = fs[q]
  <2>1. ~IsPrefix(new, q)
    <3>1. new \notin DOMAIN fs
      BY DEF CanRename, Exists
    <3> QED BY <1>0, <3>1, TreeClosed
  <2> QED BY <1>1, <2>1
<1>3. ASSUME NEW q \in Under(old) PROVE Moved(old, new)[Goes(old, new, q)] = fs[q]
  <2>1. /\ IsPrefix(new, Goes(old, new, q))
        /\ Join(old, Within(new, Goes(old, new, q))) = q
    BY <1>0, GoesTo
  <2>2. Goes(old, new, q) \in D
    OBVIOUS
  <2> HIDE DEF D
  <2> QED BY <1>1, <2>1, <2>2
<1> QED BY <1>1, <1>2, <1>3

\* After rename.
LEMMA TreeMoved ==
    ASSUME IsTree(fs), NEW u \in Users, NEW w \in Users,
           NEW old \in Items(u), NEW new \in Homes(w), CanRename(old, new)
    PROVE  IsTree(Moved(old, new))
<1> DEFINE t == Moved(old, new)
<1>0. /\ old \in Homes(u) /\ new \in Homes(w)
      /\ new \in Seq(Elements) /\ Len(new) >= 1 /\ old \in Seq(Elements)
  BY ItemIs, HomeIs
<1>1. /\ DOMAIN t = (DOMAIN fs \ Under(old)) \cup {Goes(old, new, q) : q \in Under(old)}
      /\ \A q \in DOMAIN fs \ Under(old) : t[q] = fs[q]
      /\ \A q \in Under(old) : t[Goes(old, new, q)] = fs[q]
  BY MovedIs
<1> HIDE DEF t
<1>2. ASSUME NEW q \in DOMAIN fs \ Under(old)
      PROVE  /\ q \in Paths /\ t[q] \in {Dir} \cup Contents
             /\ Len(q) > 1 => Front(q) \in DOMAIN t /\ t[Front(q)] = Dir
  <2>1. q \in Paths /\ fs[q] \in {Dir} \cup Contents /\ q \in Seq(Elements) /\ Len(q) >= 1
    BY TreePaths DEF IsTree
  <2>2. ASSUME Len(q) > 1 PROVE Front(q) \in DOMAIN fs \ Under(old) /\ fs[Front(q)] = Dir
    <3>1. Front(q) \in DOMAIN fs /\ fs[Front(q)] = Dir
      BY <2>2 DEF IsTree
    <3>2. ~IsPrefix(old, Front(q))
      BY <1>0, <2>1, PrefixOfFront DEF Under
    <3> QED BY <3>1, <3>2 DEF Under
  <2> QED BY <1>1, <2>1, <2>2
<1>3. ASSUME NEW q \in Under(old)
      PROVE  /\ Goes(old, new, q) \in Paths /\ t[Goes(old, new, q)] \in {Dir} \cup Contents
             /\ Len(Goes(old, new, q)) > 1 =>
                    /\ Front(Goes(old, new, q)) \in DOMAIN t
                    /\ t[Front(Goes(old, new, q))] = Dir
  <2>1. Goes(old, new, q) \in Homes(w) /\ Len(Goes(old, new, q)) <= MaxDepth
    <3>1. Len(new) + Len(q) - Len(old) <= MaxDepth
      BY DEF CanRename
    <3>2. /\ Goes(old, new, q) \in Homes(w)
          /\ Len(Goes(old, new, q)) = Len(new) + Len(q) - Len(old)
      BY <1>0, GoesTo
    <3> QED BY <3>1, <3>2
  <2>2. Goes(old, new, q) \in Paths
    BY <2>1, PathsAre
  <2>3. fs[q] \in {Dir} \cup Contents
    BY DEF IsTree, Under
  <2>4. CASE q # old
    <3>1. /\ Front(q) \in Under(old) /\ fs[Front(q)] = Dir
          /\ Front(Goes(old, new, q)) = Goes(old, new, Front(q))
      BY <1>0, <2>4, GoesTo
    <3> QED BY <1>1, <2>2, <2>3, <3>1
  <2>5. CASE q = old
    <3>1. Goes(old, new, q) = new
      BY <1>0, <2>5, GoesTo
    <3>2. Len(new) > 1 => Front(new) \in DOMAIN fs /\ fs[Front(new)] = Dir
      BY <1>0, ParentIs DEF CanRename
    <3>3. ~IsPrefix(old, Front(new))
      BY <1>0, PrefixOfFront DEF CanRename
    <3> QED BY <1>1, <2>2, <2>3, <3>1, <3>2, <3>3 DEF Under
  <2> QED BY <2>4, <2>5
<1>4. IsTree(t)
  <2>1. DOMAIN t \subseteq Paths
    BY <1>1, <1>2, <1>3
  <2>2. \A q \in DOMAIN t : t[q] \in {Dir} \cup Contents
    BY <1>1, <1>2, <1>3
  <2>3. \A q \in DOMAIN t : Len(q) > 1 => Front(q) \in DOMAIN t /\ t[Front(q)] = Dir
    BY <1>1, <1>2, <1>3
  <2> QED BY <2>1, <2>2, <2>3 DEF IsTree
<1> QED BY <1>4 DEF t

\* What accepting a share leaves.
CopyOf(src, dest, made) ==
    [q \in {dest \o r : r \in made} |->
        IF Exists(src) THEN fs[src \o Within(dest, q)] ELSE Dir]

Shared(src, dest, made) == Over(CopyOf(src, dest, made), fs)
Made(src, dest, failing) == {r \in Sources(src) : Copies(dest, failing, r)}

\* The paths that copyDir goes through.
LEMMA SourcesAre ==
    ASSUME IsTree(fs), NEW v \in Users, NEW src \in Items(v), NEW r \in Sources(src)
    PROVE  /\ r \in Seq(Names) /\ Len(r) <= MaxDepth
           /\ Exists(src) => Join(src, r) \in Under(src)
           /\ ~Exists(src) => r = <<>>
           /\ Len(r) >= 1 => /\ Front(r) \in Sources(src) /\ Exists(src)
                             /\ Join(src, Front(r)) \in DOMAIN fs
                             /\ fs[Join(src, Front(r))] = Dir
<1>0. src \in Homes(v) /\ src \in Seq(Elements) /\ Len(src) >= 1
  BY ItemIs, HomeIs
<1>1. ASSUME NEW q \in Under(src)
      PROVE  /\ Within(src, q) \in Seq(Names) /\ Len(Within(src, q)) = Len(q) - Len(src)
             /\ Len(q) <= MaxDepth /\ Len(q) \in Nat
             /\ q \in DOMAIN fs /\ q \in Seq(Elements) /\ IsPrefix(src, q)
             /\ Join(src, Within(src, q)) = q /\ Exists(src)
  <2>1. q \in Homes(v)
    BY <1>0, GoesTo
  <2>2. q \in DOMAIN fs /\ q \in Seq(Elements) /\ IsPrefix(src, q) /\ Len(q) <= MaxDepth
    BY TreePaths DEF Under
  <2>3. Within(src, q) \in Seq(Names) /\ Len(Within(src, q)) = Len(q) - Len(src)
    BY <1>0, <2>1, <2>2, WithinIsNames
  <2>4. Join(src, Within(src, q)) = q
    BY <1>0, <2>2, JoinWithin
  <2>5. src \in DOMAIN fs
    BY <1>0, <2>2, TreeClosed
  <2> QED BY <2>2, <2>3, <2>4, <2>5 DEF Exists
<1>2. CASE r = <<>>
  <2>1. r \in Seq(Names) /\ Len(r) = 0
    BY <1>2
  <2>2. Join(src, r) = src /\ IsPrefix(src, src)
    BY <1>0, <1>2, PrefixOfSelf DEF Join
  <2>3. MaxDepth >= 0
    BY FilesAssumption
  <2> QED BY <1>2, <2>1, <2>2, <2>3 DEF Under, Exists
<1>3. CASE r # <<>>
  <2>1. PICK q \in Under(src) : r = Within(src, q)
    BY <1>3 DEF Sources
  <2>2. r \in Seq(Names) /\ Len(r) <= MaxDepth /\ Join(src, r) = q /\ Exists(src)
    <3>1. /\ r \in Seq(Names) /\ Len(r) = Len(q) - Len(src) /\ Len(q) <= MaxDepth
          /\ Len(q) \in Nat /\ Join(src, r) = q /\ Exists(src)
      BY <1>1, <2>1
    <3>2. MaxDepth \in Nat /\ Len(src) \in Nat
      BY <1>0, FilesAssumption
    <3>3. Len(q) - Len(src) <= MaxDepth
      BY <1>0, <3>1, <3>2
    <3> QED BY <3>1, <3>3
  <2>3. Len(r) >= 1
    BY <1>3, <2>2
  <2>4. q # src
    BY <1>0, <1>1, <2>1, <2>3
  <2>5. Front(q) \in Under(src) /\ fs[Front(q)] = Dir /\ Front(q) \in DOMAIN fs
    BY <1>0, <2>4, GoesTo DEF Under
  <2>6. r \in Seq(Elements)
    BY <2>2 DEF Elements
  <2>7. Front(q) = Join(src, Front(r)) /\ Front(r) \in Seq(Elements)
    BY <1>0, <2>2, <2>3, <2>6, FrontJoin, FrontOf
  <2>8. Within(src, Front(q)) = Front(r)
    BY <1>0, <2>7, WithinJoin
  <2>9. Front(r) \in Sources(src)
    BY <2>5, <2>8 DEF Sources
  <2> QED BY <2>1, <2>2, <2>5, <2>7, <2>9, <1>3
<1> QED BY <1>2, <1>3

\* Where u's copy of src goes.
Dest(u, src) == <<u, Last(src)>>

\* The paths that are made are new, below dest, and each below a directory.
LEMMA MadeAre ==
    ASSUME IsTree(fs), NEW u \in Users, NEW v \in Users, NEW src \in Items(v),
           NEW failing, NEW r \in Made(src, Dest(u, src), failing)
    PROVE  /\ Dest(u, src) \in Items(u) /\ Join(Dest(u, src), r) \in Homes(u)
           /\ IsPrefix(Dest(u, src), Join(Dest(u, src), r))
           /\ Within(Dest(u, src), Join(Dest(u, src), r)) = r
           /\ Join(Dest(u, src), r) \notin DOMAIN fs /\ Join(Dest(u, src), r) \in Paths
           /\ \/ IsDir(Front(Join(Dest(u, src), r)))
              \/ /\ Front(r) \in Made(src, Dest(u, src), failing) /\ Len(r) >= 1
                 /\ Front(Join(Dest(u, src), r)) = Join(Dest(u, src), Front(r))
                 /\ Exists(src) /\ fs[Join(src, Front(r))] = Dir
<1>0. Last(src) \in Names
  BY ItemIs
<1>d. PICK dest : dest = Dest(u, src)
  OBVIOUS
<1>1. dest \in Items(u) /\ dest \in Homes(u) /\ dest \in Seq(Elements) /\ Len(dest) = 2
  <2>1. dest = Append(<<u>>, Last(src))
    BY <1>d DEF Dest
  <2>2. dest \in Items(u) /\ Len(dest) = Len(<<u>>) + 1
    BY <1>0, <2>1, RootIs, AppendIs
  <2>3. Len(dest) = 2
    BY <2>2, RootIs
  <2> QED BY <2>2, <2>3, ItemIs, HomeIs
<1>2. /\ r \in Seq(Names) /\ r \in Sources(src)
      /\ Len(r) >= 1 => /\ Front(r) \in Sources(src) /\ Exists(src)
                        /\ fs[Join(src, Front(r))] = Dir
  BY SourcesAre, Zenon DEF Made
<1>3. r \in Seq(Elements)
  BY <1>2 DEF Elements
<1>4. /\ Join(dest, r) \notin DOMAIN fs /\ Len(Join(dest, r)) <= MaxDepth
      /\ HasDir(dest, failing, r) /\ IsDir(Front(dest))
  BY <1>d DEF Made, Copies, Exists, Join
<1>5. Join(dest, r) \in Homes(u) /\ Join(dest, r) \in Paths
  BY <1>1, <1>2, <1>4, JoinIsHome, PathsAre
<1>6. IsPrefix(dest, Join(dest, r)) /\ Within(dest, Join(dest, r)) = r
  BY <1>1, <1>3, WithinJoin
<1>7. CASE Len(r) = 0
  <2>1. Join(dest, r) = dest
    <3>1. r = <<>>
      BY <1>2, <1>7
    <3> QED BY <1>1, <3>1 DEF Join
  <2> QED BY <1>d, <1>1, <1>4, <1>5, <1>6, <2>1
<1>8. CASE Len(r) >= 1
  <2>1. PICK f \in Seq(Elements) : f = Front(r) /\ IsFront(f, r)
    BY <1>3, <1>8, FrontOf
  <2>2. Front(Join(dest, r)) = Join(dest, f)
    BY <1>1, <1>3, <1>8, <2>1, FrontJoin
  <2>3. SubSeq(r, 1, Len(f)) = f /\ Len(f) \in 0..Len(r) - 1
    BY <1>2, <1>8, <2>1 DEF IsFront, Front
  <2>4. IsDir(Join(dest, f)) \/ (~Exists(Join(dest, f)) /\ Join(dest, f) \notin failing)
    BY <1>4, <2>3 DEF HasDir, Join
  <2>5. ASSUME ~Exists(Join(dest, f)), Join(dest, f) \notin failing
        PROVE  f \in Made(src, dest, failing)
    <3>1. HasDir(dest, failing, f)
      <4>1. ASSUME NEW i \in 0..Len(f) - 1
            PROVE  i \in 0..Len(r) - 1 /\ SubSeq(f, 1, i) = SubSeq(r, 1, i)
        <5>1. i \in 0..Len(r) - 1 /\ i \in 0..Len(f) /\ i \in 0..Len(r)
          BY <2>3
        <5>2. /\ SubSeq(f, 1, i) \in Seq(Elements) /\ Len(SubSeq(f, 1, i)) = i
              /\ \A k \in 1..i : SubSeq(f, 1, i)[k] = f[k]
          BY <5>1, CutIs
        <5>3. /\ SubSeq(r, 1, i) \in Seq(Elements) /\ Len(SubSeq(r, 1, i)) = i
              /\ \A k \in 1..i : SubSeq(r, 1, i)[k] = r[k]
          BY <1>3, <5>1, CutIs
        <5>4. \A k \in 1..i : f[k] = r[k]
          BY <2>1, <2>3 DEF IsFront
        <5> QED BY <5>1, <5>2, <5>3, <5>4, SeqEqual
      <4> QED BY <1>4, <4>1 DEF HasDir
    <3>2. Len(Join(dest, f)) <= MaxDepth
      <4>1. Len(Join(dest, f)) = Len(dest) + Len(f) /\ Len(Join(dest, r)) = Len(dest) + Len(r)
        BY <1>1, <1>3, JoinOf DEF IsJoin
      <4>2. MaxDepth \in Nat /\ Len(f) <= Len(r)
        BY <2>3, FilesAssumption
      <4> QED BY <1>1, <1>3, <1>4, <4>1, <4>2
    <3> QED BY <1>2, <1>4, <1>8, <1>d, <2>1, <2>5, <3>1, <3>2 DEF Made, Copies, Join
  <2> QED BY <1>d, <1>1, <1>2, <1>4, <1>5, <1>6, <1>8, <2>1, <2>2, <2>4, <2>5
<1> QED BY <1>2, <1>7, <1>8

\* t is the file system with a copy of src at dest, of what m names.
IsShared(t, src, dest, m) ==
    /\ DOMAIN t = DOMAIN fs \cup {Join(dest, r) : r \in m}
    /\ \A q \in DOMAIN fs : t[q] = fs[q]
    /\ \A r \in m : t[Join(dest, r)] = IF Exists(src) THEN fs[Join(src, r)] ELSE Dir

\* That is what shareFileAgree leaves.
LEMMA SharedIs ==
    ASSUME IsTree(fs), NEW u \in Users, NEW v \in Users, NEW src \in Items(v),
           NEW failing
    PROVE  IsShared(Shared(src, Dest(u, src), Made(src, Dest(u, src), failing)),
                    src, Dest(u, src), Made(src, Dest(u, src), failing))
<1>d. PICK dest : dest = Dest(u, src)
  OBVIOUS
<1>m. PICK m : m = Made(src, dest, failing)
  OBVIOUS
<1>c. PICK c : c = CopyOf(src, dest, m)
  OBVIOUS
<1>t. PICK t : t = Over(c, fs)
  OBVIOUS
<1>1. ASSUME NEW r \in m
      PROVE  Join(dest, r) \notin DOMAIN fs /\ Within(dest, Join(dest, r)) = r
  BY <1>d, <1>m, MadeAre
<1>2. DOMAIN c = {Join(dest, r) : r \in m}
  BY <1>c DEF CopyOf, Join
<1>3. \A q \in DOMAIN c : c[q] = IF Exists(src) THEN fs[Join(src, Within(dest, q))] ELSE Dir
  BY <1>c DEF CopyOf, Join
<1>4. ASSUME NEW r \in m
      PROVE  c[Join(dest, r)] = IF Exists(src) THEN fs[Join(src, r)] ELSE Dir
  BY <1>1, <1>2, <1>3
<1>5. /\ DOMAIN t = DOMAIN c \cup DOMAIN fs
      /\ \A q \in DOMAIN t : t[q] = IF q \in DOMAIN c THEN c[q] ELSE fs[q]
  BY <1>t DEF Over
<1>6. \A q \in DOMAIN fs : t[q] = fs[q]
  BY <1>1, <1>2, <1>5
<1>7. \A r \in m : t[Join(dest, r)] = IF Exists(src) THEN fs[Join(src, r)] ELSE Dir
  BY <1>2, <1>4, <1>5
<1>8. t = Shared(src, dest, m)
  BY <1>c, <1>t DEF Shared
<1>9. IsShared(t, src, dest, m)
  BY <1>2, <1>5, <1>6, <1>7 DEF IsShared
<1> QED BY <1>d, <1>m, <1>8, <1>9

\* After copyDir, with whatever failing.
LEMMA TreeShared ==
    ASSUME IsTree(fs), NEW u \in Users, NEW v \in Users, NEW src \in Items(v),
           NEW failing
    PROVE  IsTree(Shared(src, Dest(u, src), Made(src, Dest(u, src), failing)))
<1>d. PICK dest : dest = Dest(u, src)
  OBVIOUS
<1>m. PICK m : m = Made(src, dest, failing)
  OBVIOUS
<1>t. PICK t : t = Shared(src, dest, m)
  OBVIOUS
<1>1. /\ DOMAIN t = DOMAIN fs \cup {Join(dest, r) : r \in m}
      /\ \A q \in DOMAIN fs : t[q] = fs[q]
      /\ \A r \in m : t[Join(dest, r)] = IF Exists(src) THEN fs[Join(src, r)] ELSE Dir
  <2>1. IsShared(t, src, dest, m)
    BY <1>d, <1>m, <1>t, SharedIs
  <2> QED BY <2>1 DEF IsShared
<1>2. ASSUME NEW q \in DOMAIN fs
      PROVE  /\ q \in Paths /\ t[q] \in {Dir} \cup Contents
             /\ Len(q) > 1 => Front(q) \in DOMAIN t /\ t[Front(q)] = Dir
  BY <1>1 DEF IsTree
<1>3. ASSUME NEW r \in m
      PROVE  /\ Join(dest, r) \in Paths /\ t[Join(dest, r)] \in {Dir} \cup Contents
             /\ Front(Join(dest, r)) \in DOMAIN t /\ t[Front(Join(dest, r))] = Dir
  <2>1. /\ Join(dest, r) \in Paths
        /\ \/ IsDir(Front(Join(dest, r)))
           \/ /\ Front(r) \in m /\ Front(Join(dest, r)) = Join(dest, Front(r))
              /\ Exists(src) /\ fs[Join(src, Front(r))] = Dir
    BY <1>d, <1>m, MadeAre
  <2>2. t[Join(dest, r)] \in {Dir} \cup Contents
    <3>1. CASE Exists(src)
      <4>1. Join(src, r) \in DOMAIN fs
        BY <1>m, <3>1, SourcesAre DEF Made, Under
      <4> QED BY <1>1, <3>1, <4>1 DEF IsTree
    <3>2. CASE ~Exists(src)
      BY <1>1, <3>2
    <3> QED BY <3>1, <3>2
  <2> QED BY <1>1, <2>1, <2>2 DEF IsDir, Exists
<1>4. IsTree(t)
  <2>1. DOMAIN t \subseteq Paths
    BY <1>1, <1>2, <1>3
  <2>2. \A q \in DOMAIN t : t[q] \in {Dir} \cup Contents
    BY <1>1, <1>2, <1>3
  <2>3. \A q \in DOMAIN t : Len(q) > 1 => Front(q) \in DOMAIN t /\ t[Front(q)] = Dir
    BY <1>1, <1>2, <1>3
  <2> QED BY <2>1, <2>2, <2>3 DEF IsTree
<1> QED BY <1>d, <1>m, <1>t, <1>4

-----------------------------------------------------------------------------
(* The type invariant.                                                     *)

AnyHome == UNION {Homes(v) : v \in Users}
AnyItem == UNION {Items(v) : v \in Users}
Shown == SUBSET (Names \X BOOLEAN)

Requests(u) ==
    ({"flushFile"} \X Homes(u)) \cup ({"mkdir"} \X AnyHome) \cup ({"delDir"} \X Items(u))
        \cup ({"renameFile"} \X Items(u) \X AnyHome) \cup ({"mvFile"} \X Items(u) \X Items(u))
        \cup ({"shareFile"} \X Items(u) \X SUBSET (Users \ {u})) \cup ({"agree"} \X AnyItem)

Outcomes == {"mkdir", "delDir", "renameFile", "mvFile", "agree"}
Answers == ({"flushFile"} \X Shown) \cup ((Outcomes \cup {"shareFile"}) \X BOOLEAN)
               \cup ({"resend"} \X AnyItem)

MessagesOK ==
    /\ DOMAIN requests = Users /\ DOMAIN answers = Users
    /\ \A u \in Users : requests[u] \in Seq(Requests(u)) /\ answers[u] \in Seq(Answers)

WindowsOK ==
    /\ DOMAIN m_strCurPath = Users /\ DOMAIN list = Users
    /\ DOMAIN m_strMvFilePath = Users /\ DOMAIN m_strShareFilePath = Users
    /\ \A u \in Users :
        /\ m_strCurPath[u] \in Homes(u) /\ list[u] \in Shown
        /\ m_strMvFilePath[u] = NoPath \/ m_strMvFilePath[u] \in Items(u)
        /\ m_strShareFilePath[u] = NoPath \/ m_strShareFilePath[u] \in Items(u)

CountsOK ==
    /\ undefined \in [Users -> BOOLEAN]
    /\ faults \in 0..MaxFaults /\ acts \in 0..MaxActs

FilesInv == IsTree(fs) /\ MessagesOK /\ WindowsOK /\ CountsOK

\* What is in a request, and which requests there are.
LEMMA RequestParts ==
    ASSUME NEW u, NEW m \in Requests(u)
    PROVE  /\ m[1] \in {"flushFile", "shareFile"} \cup Outcomes
           /\ m[1] = "flushFile" => m[2] \in Homes(u)
           /\ m[1] = "mkdir" => m[2] \in AnyHome
           /\ m[1] = "delDir" => m[2] \in Items(u)
           /\ m[1] = "renameFile" => m[2] \in Items(u) /\ m[3] \in AnyHome
           /\ m[1] = "mvFile" => m[2] \in Items(u) /\ m[3] \in Items(u)
           /\ m[1] = "shareFile" => m[2] \in Items(u) /\ m[3] \in SUBSET (Users \ {u})
           /\ m[1] = "agree" => m[2] \in AnyItem
BY DEF Requests, Outcomes

\* Which requests there are.
LEMMA RequestsAre ==
    ASSUME NEW u, NEW p, NEW q
    PROVE  /\ p \in Homes(u) => <<"flushFile", p>> \in Requests(u)
           /\ p \in AnyHome => <<"mkdir", p>> \in Requests(u)
           /\ p \in Items(u) => <<"delDir", p>> \in Requests(u)
           /\ p \in Items(u) /\ q \in AnyHome => <<"renameFile", p, q>> \in Requests(u)
           /\ p \in Items(u) /\ q \in Items(u) => <<"mvFile", p, q>> \in Requests(u)
           /\ p \in Items(u) /\ q \in SUBSET (Users \ {u}) => <<"shareFile", p, q>> \in Requests(u)
           /\ p \in AnyItem => <<"agree", p>> \in Requests(u)
BY DEF Requests

\* An item of a user is in somebody's directory.
LEMMA ItemIsAny == ASSUME NEW u \in Users, NEW p \in Items(u) PROVE p \in AnyHome
BY ItemIs DEF AnyHome

\* What is in an answer, and which answers there are.
LEMMA AnswerParts ==
    ASSUME NEW m \in Answers
    PROVE  /\ m[1] \in {"flushFile", "shareFile", "resend"} \cup Outcomes
           /\ m[1] = "flushFile" => m[2] \in Shown
           /\ m[1] \in Outcomes => m[2] \in BOOLEAN
           /\ m[1] = "resend" => m[2] \in AnyItem
BY DEF Answers, Outcomes

\* Which answers there are.
LEMMA AnswersAre ==
    /\ \A L \in Shown : <<"flushFile", L>> \in Answers
    /\ \A op \in Outcomes \cup {"shareFile"}, ok \in BOOLEAN : <<op, ok>> \in Answers
    /\ \A p \in AnyItem : <<"resend", p>> \in Answers
BY DEF Answers

\* What entryInfoList says of any path is a list.
LEMMA EntriesAreShown == ASSUME NEW p PROVE Entries(p) \in Shown
<1>1. \A n \in Names : <<n, IsDir(Append(p, n))>> \in Names \X BOOLEAN
  BY DEF IsDir
<1> QED BY <1>1 DEF Entries, Shown

\* Queues: what is sent comes last, and what is taken was first.
LEMMA SentLast ==
    ASSUME NEW S, NEW s \in Seq(S), NEW m \in S
    PROVE  /\ Append(s, m) \in Seq(S) /\ Append(s, m) # s /\ Append(s, m) # <<>>
           /\ Len(Append(s, m)) = Len(s) + 1 /\ Append(s, m)[Len(s) + 1] = m
           /\ Last(Append(s, m)) = m
           /\ \A i \in 1..Len(s) : Append(s, m)[i] = s[i]
<1>1. /\ Append(s, m) \in Seq(S) /\ Len(Append(s, m)) = Len(s) + 1
      /\ Append(s, m)[Len(s) + 1] = m
      /\ \A i \in 1..Len(s) : Append(s, m)[i] = s[i]
  OBVIOUS
<1>2. Append(s, m) # s
  BY <1>1
<1>3. Append(s, m) # <<>>
  BY <1>1
<1>4. Last(Append(s, m)) = m
  BY <1>1 DEF Last
<1> QED BY <1>1, <1>2, <1>3, <1>4

\* What is taken from a queue, and what is left of it.
LEMMA TakenFirst ==
    ASSUME NEW S, NEW s \in Seq(S), s # <<>>
    PROVE  /\ Head(s) \in S /\ Head(s) = s[1] /\ 1 \in 1..Len(s)
           /\ Tail(s) \in Seq(S) /\ Len(Tail(s)) = Len(s) - 1
           /\ \A i \in 1..Len(Tail(s)) : i + 1 \in 1..Len(s) /\ Tail(s)[i] = s[i + 1]
           /\ \A i \in 2..Len(s) : i - 1 \in 1..Len(Tail(s)) /\ Tail(s)[i - 1] = s[i]
OBVIOUS

\* What u asked for first is well formed.
LEMMA AskedIs ==
    ASSUME MessagesOK, NEW u \in Users, NEW op, Asked(u, op)
    PROVE  /\ Head(requests[u]) \in Requests(u)
           /\ op \in {"flushFile", "shareFile"} \cup Outcomes
           /\ op = "flushFile" => Arg(u, 1) \in Homes(u)
           /\ op = "mkdir" => Arg(u, 1) \in AnyHome
           /\ op = "delDir" => Arg(u, 1) \in Items(u)
           /\ op \in {"renameFile", "mvFile"} => Arg(u, 1) \in Items(u) /\ Arg(u, 2) \in AnyHome
           /\ op = "shareFile" => Arg(u, 1) \in Items(u) /\ Arg(u, 2) \in SUBSET (Users \ {u})
           /\ op = "agree" => \E v \in Users : Arg(u, 1) \in Items(v)
<1>1. PICK m \in Requests(u) : m = Head(requests[u])
  BY TakenFirst DEF MessagesOK, Asked
<1>2. m[1] = op /\ Arg(u, 1) = m[2] /\ Arg(u, 2) = m[3]
  BY <1>1 DEF Asked, Arg
<1>3. op \in {"renameFile", "mvFile"} => m[2] \in Items(u) /\ m[3] \in AnyHome
  BY <1>2, RequestParts, ItemIsAny
<1> QED BY <1>1, <1>2, <1>3, RequestParts DEF AnyItem

\* Sending, taking, replying and hearing keep the types of the queues.
LEMMA SendTypes ==
    ASSUME MessagesOK, NEW u \in Users, NEW m \in Requests(u), Send(u, m)
    PROVE  /\ DOMAIN requests' = Users
           /\ \A v \in Users : requests'[v] \in Seq(Requests(v))
           /\ \A v \in Users \ {u} : requests'[v] = requests[v]
           /\ requests'[u] = Append(requests[u], m) /\ requests'[u] # requests[u]
<1>1. /\ DOMAIN requests = Users /\ requests[u] \in Seq(Requests(u))
      /\ \A v \in Users : requests[v] \in Seq(Requests(v))
  BY DEF MessagesOK
<1>2. DOMAIN requests' = Users /\ \A v \in Users \ {u} : requests'[v] = requests[v]
  BY <1>1 DEF Send
<1>3. requests'[u] = Append(requests[u], m)
  BY <1>1 DEF Send
<1>4. requests'[u] \in Seq(Requests(u)) /\ requests'[u] # requests[u]
  BY <1>1, <1>3, SentLast
<1>5. \A v \in Users : requests'[v] \in Seq(Requests(v))
  BY <1>1, <1>2, <1>4
<1> QED BY <1>2, <1>3, <1>4, <1>5

\* Taking a request leaves the others' requests as they were.
LEMMA TookTypes ==
    ASSUME MessagesOK, NEW u \in Users, requests[u] # <<>>, Took(u)
    PROVE  /\ DOMAIN requests' = Users
           /\ \A v \in Users : requests'[v] \in Seq(Requests(v))
           /\ \A v \in Users \ {u} : requests'[v] = requests[v]
           /\ requests'[u] = Tail(requests[u])
<1>1. /\ DOMAIN requests = Users /\ requests[u] \in Seq(Requests(u))
      /\ \A v \in Users : requests[v] \in Seq(Requests(v))
  BY DEF MessagesOK
<1>2. DOMAIN requests' = Users /\ \A v \in Users \ {u} : requests'[v] = requests[v]
  BY <1>1 DEF Took
<1>3. requests'[u] = Tail(requests[u])
  BY <1>1 DEF Took
<1>4. requests'[u] \in Seq(Requests(u))
  BY <1>1, <1>3, TakenFirst
<1>5. \A v \in Users : requests'[v] \in Seq(Requests(v))
  BY <1>1, <1>2, <1>4
<1> QED BY <1>2, <1>3, <1>5

\* Replying takes a request and adds an answer.
LEMMA ReplyTypes ==
    ASSUME MessagesOK, NEW u \in Users, requests[u] # <<>>, NEW m \in Answers, Reply(u, m)
    PROVE  /\ MessagesOK'
           /\ \A v \in Users \ {u} : requests'[v] = requests[v] /\ answers'[v] = answers[v]
           /\ requests'[u] = Tail(requests[u]) /\ answers'[u] = Append(answers[u], m)
<1>1. /\ DOMAIN requests' = Users
      /\ \A v \in Users : requests'[v] \in Seq(Requests(v))
      /\ \A v \in Users \ {u} : requests'[v] = requests[v]
      /\ requests'[u] = Tail(requests[u])
  BY TookTypes DEF Reply
<1>2. DOMAIN answers = Users /\ \A v \in Users : answers[v] \in Seq(Answers)
  BY DEF MessagesOK
<1>3. answers' = [answers EXCEPT ![u] = Append(@, m)]
  BY DEF Reply
<1>4. DOMAIN answers' = Users /\ \A v \in Users \ {u} : answers'[v] = answers[v]
  BY <1>2, <1>3
<1>5. answers'[u] = Append(answers[u], m)
  BY <1>2, <1>3
<1>6. answers'[u] \in Seq(Answers)
  BY <1>2, <1>5, SentLast
<1>7. \A v \in Users : answers'[v] \in Seq(Answers)
  BY <1>2, <1>4, <1>6
<1> QED BY <1>1, <1>4, <1>5, <1>7 DEF MessagesOK

\* Hearing an answer leaves the others' answers as they were.
LEMMA HeardTypes ==
    ASSUME MessagesOK, NEW u \in Users, answers[u] # <<>>, Heard(u)
    PROVE  /\ DOMAIN answers' = Users
           /\ \A v \in Users : answers'[v] \in Seq(Answers)
           /\ \A v \in Users \ {u} : answers'[v] = answers[v]
           /\ answers'[u] = Tail(answers[u])
<1>2. DOMAIN answers = Users /\ \A v \in Users : answers[v] \in Seq(Answers)
  BY DEF MessagesOK
<1>3. answers' = [answers EXCEPT ![u] = Tail(@)]
  BY DEF Heard
<1>4. DOMAIN answers' = Users /\ \A v \in Users \ {u} : answers'[v] = answers[v]
  BY <1>2, <1>3
<1>5. answers'[u] = Tail(answers[u])
  BY <1>2, <1>3
<1>6. answers'[u] \in Seq(Answers)
  BY <1>2, <1>5, TakenFirst
<1>7. \A v \in Users : answers'[v] \in Seq(Answers)
  BY <1>2, <1>4, <1>6
<1> QED BY <1>4, <1>5, <1>7

\* What the path of u, and a name from the list shown to u, make.
LEMMA HereIs ==
    ASSUME WindowsOK, NEW u \in Users, NEW n \in Names
    PROVE  Here(u, n) \in Items(u)
BY AppendIs DEF WindowsOK, Here

\* What a typed name leads to is in somebody's directory.
LEMMA TypedIs ==
    ASSUME WindowsOK, NEW u \in Users, NEW p \in Typed(u)
    PROVE  p \in AnyHome
<1>1. CASE p \in Beyond
  <2>1. PICK n \in 1..MaxDepth :
          /\ p \in [1..n -> Users \cup Names]
          /\ p[1] \in Users /\ \A i \in 2..n : p[i] \in Names
    BY <1>1, PathsAssumption DEF Paths
  <2>2. p \in Seq(Elements) /\ Len(p) = n /\ n >= 1
    <3>1. n \in Nat /\ n >= 1
      BY FilesAssumption
    <3> QED BY <2>1, <3>1 DEF Elements
  <2>3. p \in Homes(p[1])
    BY <2>1, <2>2 DEF Homes
  <2> QED BY <2>1, <2>3 DEF AnyHome
<1>2. CASE \E n \in Names : p = Here(u, n)
  BY <1>2, HereIs, ItemIsAny
<1> QED BY <1>1, <1>2 DEF Typed

\* What is in the list is a name.
LEMMA ListedNames ==
    ASSUME WindowsOK, NEW u \in Users, NEW e \in list[u]
    PROVE  e[1] \in Names /\ e[2] \in BOOLEAN /\ Here(u, e[1]) \in Items(u)
<1>1. e[1] \in Names /\ e[2] \in BOOLEAN
  BY DEF WindowsOK, Shown
<1> QED BY <1>1, HereIs

\* What a click leaves as it was.
LEMMA ClickTypes ==
    ASSUME FilesInv, NEW u \in Users, NEW m \in Requests(u), Click(u, m)
    PROVE  /\ IsTree(fs)' /\ MessagesOK' /\ CountsOK'
           /\ UNCHANGED <<answers, fs, undefined>>
           /\ requests'[u] = Append(requests[u], m) /\ requests'[u] # requests[u]
           /\ \A v \in Users \ {u} : requests'[v] = requests[v]
           /\ acts' # acts
<1>1. MessagesOK /\ Send(u, m) /\ UNCHANGED <<answers, serverVars>>
  BY DEF Click, FilesInv
<1>2. UNCHANGED <<answers, fs, faults, undefined>>
  BY <1>1 DEF serverVars
<1>3. /\ DOMAIN requests' = Users
      /\ \A v \in Users : requests'[v] \in Seq(Requests(v))
      /\ \A v \in Users \ {u} : requests'[v] = requests[v]
      /\ requests'[u] = Append(requests[u], m) /\ requests'[u] # requests[u]
  BY <1>1, SendTypes
<1>4. MessagesOK'
  BY <1>1, <1>2, <1>3 DEF MessagesOK
<1>5. acts' = acts + 1 /\ acts < MaxActs /\ acts \in 0..MaxActs /\ MaxActs \in Nat
  BY FilesAssumption DEF Click, FilesInv, CountsOK
<1>6. acts' \in 0..MaxActs /\ acts' # acts
  BY <1>5
<1>7. CountsOK'
  BY <1>2, <1>6 DEF CountsOK, FilesInv
<1>8. IsTree(fs)'
  BY <1>2 DEF FilesInv
<1> QED BY <1>2, <1>3, <1>4, <1>6, <1>7, <1>8

\* What the user clicks on: u enters p; u asks for m; or the window notes
\* something.
Leaves(m, c) ==
    /\ m[1] \in {"delDir", "renameFile"} => m[2] = Append(c, Last(m[2]))
    /\ m[1] = "mvFile" => (IsPrefix(m[2], c) => IsPrefix(m[2], m[3]))

Enters(u, p) ==
    /\ p \in Homes(u) /\ Enter(u, p)
    /\ \/ p = m_strCurPath[u]
       \/ m_strCurPath[u] # <<u>> /\ p = Front(m_strCurPath[u])
       \/ \E e \in list[u] : e[2] /\ p = Here(u, e[1])

Asks(u, m) ==
    /\ m \in Requests(u) /\ Click(u, m) /\ UNCHANGED <<m_strCurPath, list>>
    /\ m[1] # "flushFile" /\ Leaves(m, m_strCurPath[u])

Notes(u) == UNCHANGED <<serverVars, messageVars, m_strCurPath, list>>

\* Entering a directory changes u's path, and nothing else that is shown.
LEMMA EnterWindows ==
    ASSUME WindowsOK, NEW u \in Users, NEW p \in Homes(u), Enter(u, p)
    PROVE  /\ WindowsOK' /\ UNCHANGED list
           /\ m_strCurPath'[u] = p
           /\ \A v \in Users \ {u} : m_strCurPath'[v] = m_strCurPath[v]
<1>1. /\ DOMAIN m_strCurPath = Users
      /\ m_strCurPath' = [m_strCurPath EXCEPT ![u] = p]
      /\ UNCHANGED <<list, m_strMvFilePath, m_strShareFilePath>>
  BY DEF WindowsOK, Enter
<1>2. /\ DOMAIN m_strCurPath' = Users /\ m_strCurPath'[u] = p
      /\ \A v \in Users \ {u} : m_strCurPath'[v] = m_strCurPath[v]
  BY <1>1
<1>3. \A v \in Users : m_strCurPath'[v] \in Homes(v)
  BY <1>2 DEF WindowsOK
<1> QED BY <1>1, <1>2, <1>3 DEF WindowsOK

\* What each button is: one of the three.
LEMMA DoubleClickIs ==
    ASSUME FilesInv, NEW u \in Users, DoubleClick(u)
    PROVE  \E p : Enters(u, p)
<1>1. PICK e \in list[u] : e[2] /\ Enter(u, Here(u, e[1]))
  BY DEF DoubleClick
<1>2. Here(u, e[1]) \in Homes(u)
  BY ListedNames, ItemIs DEF FilesInv
<1> QED BY <1>1, <1>2 DEF Enters

\* The way up enters a directory of u.
LEMMA ReturnIs ==
    ASSUME FilesInv, NEW u \in Users, ClickReturn(u)
    PROVE  \E p : Enters(u, p)
<1>1. m_strCurPath[u] # <<u>> /\ Enter(u, Front(m_strCurPath[u]))
  BY DEF ClickReturn
<1>2. Front(m_strCurPath[u]) \in Homes(u)
  BY <1>1, HomeIs, ItemIs DEF FilesInv, WindowsOK
<1> QED BY <1>1, <1>2 DEF Enters

\* Flushing enters the directory again.
LEMMA FlushIs ==
    ASSUME FilesInv, NEW u \in Users, ClickFlush(u)
    PROVE  \E p : Enters(u, p)
BY DEF ClickFlush, FilesInv, WindowsOK, Enters

\* The button for a new directory sends a request.
LEMMA MkdirIs ==
    ASSUME FilesInv, NEW u \in Users, ClickMkdir(u)
    PROVE  WindowsOK' /\ \E m : Asks(u, m)
<1>1. PICK p \in Typed(u) : Click(u, <<"mkdir", p>>) /\ UNCHANGED windowVars
  BY DEF ClickMkdir
<1>m. PICK m : m = <<"mkdir", p>>
  OBVIOUS
<1>2. m \in Requests(u)
  BY <1>m, TypedIs, RequestsAre DEF FilesInv
<1>3. Leaves(m, m_strCurPath[u]) /\ m[1] # "flushFile"
  BY <1>m DEF Leaves
<1>4. UNCHANGED windowVars
  BY <1>1
<1>5. WindowsOK'
  BY <1>4 DEF windowVars, WindowsOK, FilesInv
<1> QED BY <1>1, <1>m, <1>2, <1>3, <1>5 DEF Asks, windowVars

\* The button that removes sends a request.
LEMMA DeldirIs ==
    ASSUME FilesInv, NEW u \in Users, ClickDeldir(u)
    PROVE  WindowsOK' /\ \E m : Asks(u, m)
<1>1. PICK e \in list[u] : Click(u, <<"delDir", Here(u, e[1])>>) /\ UNCHANGED windowVars
  BY DEF ClickDeldir
<1>m. PICK m : m = <<"delDir", Here(u, e[1])>>
  OBVIOUS
<1>0. e[1] \in Names /\ Here(u, e[1]) \in Items(u)
  BY ListedNames DEF FilesInv
<1>2. m \in Requests(u)
  BY <1>m, <1>0, RequestsAre
<1>3. Last(Here(u, e[1])) = e[1]
  BY <1>0, AppendIs DEF Here, FilesInv, WindowsOK
<1>4. Leaves(m, m_strCurPath[u]) /\ m[1] # "flushFile"
  BY <1>m, <1>3 DEF Leaves, Here
<1>5. WindowsOK'
  BY <1>1 DEF windowVars, WindowsOK, FilesInv
<1> QED BY <1>1, <1>m, <1>2, <1>4, <1>5 DEF Asks, windowVars

\* The button that renames sends a request.
LEMMA RenameIs ==
    ASSUME FilesInv, NEW u \in Users, ClickRename(u)
    PROVE  WindowsOK' /\ \E m : Asks(u, m)
<1>1. PICK e \in list[u], p \in Typed(u) :
        Click(u, <<"renameFile", Here(u, e[1]), p>>) /\ UNCHANGED windowVars
  BY DEF ClickRename
<1>m. PICK m : m = <<"renameFile", Here(u, e[1]), p>>
  OBVIOUS
<1>0. e[1] \in Names /\ Here(u, e[1]) \in Items(u) /\ p \in AnyHome
  BY ListedNames, TypedIs DEF FilesInv
<1>2. m \in Requests(u)
  BY <1>m, <1>0, RequestsAre
<1>3. Last(Here(u, e[1])) = e[1]
  BY <1>0, AppendIs DEF Here, FilesInv, WindowsOK
<1>4. Leaves(m, m_strCurPath[u]) /\ m[1] # "flushFile"
  BY <1>m, <1>3 DEF Leaves, Here
<1>5. WindowsOK'
  BY <1>1 DEF windowVars, WindowsOK, FilesInv
<1> QED BY <1>1, <1>m, <1>2, <1>4, <1>5 DEF Asks, windowVars

\* What is a prefix of c is one of a path in c.
LEMMA PrefixOfAppend ==
    ASSUME NEW u \in Users, NEW c \in Homes(u), NEW p \in Items(u), NEW n \in Names,
           IsPrefix(p, c)
    PROVE  IsPrefix(p, Append(c, n))
<1>1. PICK a \in Items(u) : a = Append(c, n) /\ Front(a) = c
  BY AppendIs
<1>2. a \in Seq(Elements) /\ Len(a) >= 1 /\ p \in Seq(Elements)
  BY ItemIs, HomeIs
<1> QED BY <1>1, <1>2, PrefixOfFront

\* Moving to here sends a request.
LEMMA MoveHereIs ==
    ASSUME FilesInv, NEW u \in Users, ClickMoveHere(u)
    PROVE  WindowsOK' /\ \E m : Asks(u, m)
<1>c. PICK c \in Homes(u) : c = m_strCurPath[u]
  BY DEF FilesInv, WindowsOK
<1>p. PICK p \in Items(u) : p = m_strMvFilePath[u]
  BY DEF ClickMoveHere, FilesInv, WindowsOK
<1>1. PICK to \in {c} \cup {Here(u, e[1]) : e \in {e \in list[u] : e[2]}} :
        Click(u, <<"mvFile", p, Append(to, Last(p))>>)
  BY <1>c, <1>p DEF ClickMoveHere
<1>2. to \in Homes(u) /\ (IsPrefix(p, c) => IsPrefix(p, to))
  <2>1. CASE to = c
    BY <2>1
  <2>2. CASE \E e \in list[u] : to = Here(u, e[1])
    <3>1. PICK e \in list[u] : to = Append(c, e[1])
      BY <1>c, <2>2 DEF Here
    <3>2. e[1] \in Names
      BY ListedNames DEF FilesInv
    <3> QED BY <3>1, <3>2, AppendIs, ItemIs, PrefixOfAppend
  <2> QED BY <2>1, <2>2
<1>3. PICK q \in Items(u) : q = Append(to, Last(p)) /\ (IsPrefix(p, c) => IsPrefix(p, q))
  <2>1. PICK n \in Names : n = Last(p)
    BY ItemIs
  <2>2. Append(to, n) \in Items(u)
    BY <1>2, AppendIs
  <2>3. IsPrefix(p, c) => IsPrefix(p, Append(to, n))
    BY <1>2, PrefixOfAppend
  <2> QED BY <2>1, <2>2, <2>3
<1>m. PICK m : m = <<"mvFile", p, q>>
  OBVIOUS
<1>4. m \in Requests(u) /\ Click(u, m)
  BY <1>m, <1>1, <1>3, RequestsAre
<1>5. Leaves(m, c) /\ m[1] # "flushFile"
  BY <1>m, <1>3 DEF Leaves
<1>6. /\ m_strMvFilePath' = [m_strMvFilePath EXCEPT ![u] = NoPath]
      /\ UNCHANGED <<m_strCurPath, list, m_strShareFilePath>>
  BY DEF ClickMoveHere
<1>7. WindowsOK'
  BY <1>6 DEF WindowsOK, FilesInv
<1> QED BY <1>c, <1>4, <1>5, <1>6, <1>7 DEF Asks

\* Sharing with the chosen friends sends a request.
LEMMA OkIs ==
    ASSUME FilesInv, NEW u \in Users, ClickOk(u)
    PROVE  WindowsOK' /\ \E m : Asks(u, m)
<1>p. PICK p \in Items(u) : p = m_strShareFilePath[u]
  BY DEF ClickOk, FilesInv, WindowsOK
<1>1. PICK to \in SUBSET (Users \ {u}) : Click(u, <<"shareFile", p, to>>)
  BY <1>p DEF ClickOk
<1>m. PICK m : m = <<"shareFile", p, to>>
  OBVIOUS
<1>2. m \in Requests(u)
  BY <1>m, RequestsAre
<1>3. Leaves(m, m_strCurPath[u]) /\ m[1] # "flushFile"
  BY <1>m DEF Leaves
<1>4. UNCHANGED windowVars
  BY DEF ClickOk
<1>5. WindowsOK'
  BY <1>4 DEF windowVars, WindowsOK, FilesInv
<1> QED BY <1>1, <1>m, <1>2, <1>3, <1>4, <1>5 DEF Asks, windowVars

\* What to move and what to share is only noted.
LEMMA NotesIs ==
    ASSUME FilesInv, NEW u \in Users, ClickMove(u) \/ ClickMoveNot(u) \/ ClickShare(u)
    PROVE  WindowsOK' /\ CountsOK' /\ Notes(u)
<1>0. acts \in 0..MaxActs /\ MaxActs \in Nat
  BY FilesAssumption DEF FilesInv, CountsOK
<1>1. CASE ClickMove(u)
  <2>1. PICK e \in list[u] :
            m_strMvFilePath' = [m_strMvFilePath EXCEPT ![u] = Here(u, e[1])]
    BY <1>1 DEF ClickMove
  <2>2. Here(u, e[1]) \in Items(u)
    BY ListedNames DEF FilesInv
  <2>3. WindowsOK'
    BY <1>1, <2>1, <2>2 DEF ClickMove, WindowsOK, FilesInv
  <2>4. acts < MaxActs /\ acts' = acts + 1 /\ UNCHANGED serverVars
    BY <1>1 DEF ClickMove
  <2>5. CountsOK'
    BY <1>0, <2>4 DEF CountsOK, FilesInv, serverVars
  <2> QED BY <1>1, <2>3, <2>5 DEF ClickMove, Notes
<1>2. CASE ClickMoveNot(u)
  <2>1. WindowsOK'
    BY <1>2 DEF ClickMoveNot, WindowsOK, FilesInv
  <2>2. CountsOK'
    BY <1>2 DEF ClickMoveNot, CountsOK, FilesInv, serverVars
  <2> QED BY <1>2, <2>1, <2>2 DEF ClickMoveNot, Notes
<1>3. CASE ClickShare(u)
  <2>1. PICK e \in list[u] :
            m_strShareFilePath' = [m_strShareFilePath EXCEPT ![u] = Here(u, e[1])]
    BY <1>3 DEF ClickShare
  <2>2. Here(u, e[1]) \in Items(u)
    BY ListedNames DEF FilesInv
  <2>3. WindowsOK'
    BY <1>3, <2>1, <2>2 DEF ClickShare, WindowsOK, FilesInv
  <2>4. acts < MaxActs /\ acts' = acts + 1 /\ UNCHANGED serverVars
    BY <1>3 DEF ClickShare
  <2>5. CountsOK'
    BY <1>0, <2>4 DEF CountsOK, FilesInv, serverVars
  <2> QED BY <1>3, <2>3, <2>5 DEF ClickShare, Notes
<1> QED BY <1>1, <1>2, <1>3

\* A click keeps the types, and is one of the three.
LEMMA ActIs ==
    ASSUME FilesInv, NEW u \in Users, Act(u)
    PROVE  FilesInv' /\ ((\E p : Enters(u, p)) \/ (\E m : Asks(u, m)) \/ Notes(u))
<1>1. CASE \E p : Enters(u, p)
  <2>1. PICK p : Enters(u, p)
    BY <1>1
  <2>2. p \in Homes(u) /\ Enter(u, p) /\ Click(u, FlushOf(p)) /\ FlushOf(p) \in Requests(u)
    BY <2>1, RequestsAre DEF Enters, Enter, FlushOf
  <2>3. IsTree(fs)' /\ MessagesOK' /\ CountsOK'
    BY <2>2, ClickTypes
  <2>4. WindowsOK'
    BY <2>2, EnterWindows DEF FilesInv
  <2> QED BY <1>1, <2>3, <2>4 DEF FilesInv
<1>2. CASE WindowsOK' /\ \E m : Asks(u, m)
  <2>1. PICK m : Asks(u, m)
    BY <1>2
  <2>2. IsTree(fs)' /\ MessagesOK' /\ CountsOK'
    BY <2>1, ClickTypes DEF Asks
  <2> QED BY <1>2, <2>2 DEF FilesInv
<1>3. CASE WindowsOK' /\ CountsOK' /\ Notes(u)
  <2>1. MessagesOK' /\ IsTree(fs)'
    BY <1>3 DEF Notes, messageVars, serverVars, MessagesOK, FilesInv
  <2> QED BY <1>3, <2>1 DEF FilesInv
<1> QED BY <1>1, <1>2, <1>3, DoubleClickIs, ReturnIs, FlushIs, MkdirIs, DeldirIs, RenameIs,
            MoveHereIs, OkIs, NotesIs DEF Act

-----------------------------------------------------------------------------
(* What the server does, and that it keeps the types.                      *)

\* The server has answered u, with m, and nobody else.
Replied(u, m) ==
    /\ requests[u] # <<>> /\ requests'[u] = Tail(requests[u])
    /\ m \in Answers /\ answers'[u] = Append(answers[u], m)
    /\ \A v \in Users \ {u} : requests'[v] = requests[v] /\ answers'[v] = answers[v]
    /\ UNCHANGED <<windowVars, undefined, acts>>

\* Only paths of u have been taken away; paths have only been added.
OthersKeep(u) ==
    \A v \in Users \ {u} : \A q \in Homes(v) :
        q \in DOMAIN fs => q \in DOMAIN fs' /\ fs'[q] = fs[q]

Grows == \A q \in DOMAIN fs : q \in DOMAIN fs' /\ fs'[q] = fs[q]

\* Nobody loses anything when paths are only added.
LEMMA GrownIsKept == ASSUME Grows, NEW u PROVE OthersKeep(u)
BY DEF Grows, OthersKeep

\* A path is of one user only.
LEMMA OneOwner ==
    ASSUME NEW u \in Users, NEW v \in Users, NEW q, q \in Homes(u), q \in Homes(v)
    PROVE  u = v
BY DEF Homes

\* The faults are counted up to their bound.
LEMMA FaultTypes ==
    ASSUME CountsOK, Fault \/ UNCHANGED faults
    PROVE  faults' \in 0..MaxFaults
<1>1. faults \in 0..MaxFaults /\ MaxFaults \in Nat
  BY FilesAssumption DEF CountsOK
<1> QED BY <1>1 DEF Fault

\* A reply keeps the types of all but the file system.
LEMMA RepliedTypes ==
    ASSUME FilesInv, NEW u \in Users, requests[u] # <<>>, NEW m \in Answers, Reply(u, m),
           Fault \/ UNCHANGED faults, UNCHANGED <<windowVars, undefined, acts>>
    PROVE  Replied(u, m) /\ MessagesOK' /\ WindowsOK' /\ CountsOK'
<1>1. /\ MessagesOK'
      /\ \A v \in Users \ {u} : requests'[v] = requests[v] /\ answers'[v] = answers[v]
      /\ requests'[u] = Tail(requests[u]) /\ answers'[u] = Append(answers[u], m)
  BY ReplyTypes DEF FilesInv
<1>2. Replied(u, m)
  BY <1>1 DEF Replied
<1>3. WindowsOK'
  BY DEF FilesInv, WindowsOK, windowVars
<1>4. CountsOK'
  BY FaultTypes DEF FilesInv, CountsOK
<1> QED BY <1>1, <1>2, <1>3, <1>4

\* What Mkdir does, and that it keeps the types.
LEMMA MkdirStep ==
    ASSUME FilesInv, NEW u \in Users, Mkdir(u)
    PROVE  /\ FilesInv' /\ Grows /\ Head(requests[u])[1] = "mkdir"
           /\ \E ok \in BOOLEAN : Replied(u, <<"mkdir", ok>>) /\ (~ok => fs' = fs)
<1>1. PICK v, p : v \in Users /\ p \in Homes(v) /\ p = Arg(u, 1)
  BY AskedIs DEF Mkdir, FilesInv, AnyHome
<1>a. requests[u] # <<>> /\ Head(requests[u])[1] = "mkdir"
  BY DEF Mkdir, Asked
<1>u. v \in Users /\ p \in Homes(v)
  BY <1>1
<1>2. PICK ok \in BOOLEAN :
        /\ Outcome(HasParent(p) /\ ~Exists(p) /\ Len(p) <= MaxDepth, ok)
        /\ fs' = IF ok THEN Over([q \in {p} |-> Dir], fs) ELSE fs
        /\ Reply(u, <<"mkdir", ok>>)
        /\ UNCHANGED <<windowVars, undefined, acts>>
  BY <1>1 DEF Mkdir
<1>3. Fault \/ UNCHANGED faults
  BY <1>2 DEF Outcome
<1>4. ok => HasParent(p) /\ ~Exists(p) /\ Len(p) <= MaxDepth
  BY <1>2 DEF Outcome
<1>5. <<"mkdir", ok>> \in Answers
  BY AnswersAre DEF Outcomes
<1>6. Replied(u, <<"mkdir", ok>>) /\ MessagesOK' /\ WindowsOK' /\ CountsOK'
  BY <1>a, <1>2, <1>3, <1>5, RepliedTypes
<1>7. CASE ok
  <2>1. fs' = Over([q \in {p} |-> Dir], fs)
    BY <1>2, <1>7
  <2>2. IsTree(fs')
    BY <1>u, <1>4, <1>7, <2>1, TreeMkdir DEF FilesInv
  <2>3. DOMAIN fs' = {p} \cup DOMAIN fs /\ \A q \in DOMAIN fs' : q # p => fs'[q] = fs[q]
    BY <2>1 DEF Over
  <2>4. Grows
    BY <1>4, <1>7, <2>3 DEF Grows, Exists
  <2> QED BY <1>a, <1>6, <1>7, <2>2, <2>4 DEF FilesInv
<1>8. CASE ~ok
  <2>1. fs' = fs
    BY <1>2, <1>8
  <2> QED BY <1>a, <1>6, <2>1 DEF FilesInv, Grows
<1> QED BY <1>7, <1>8

\* What FlushFile does, and that it keeps the types.
LEMMA FlushStep ==
    ASSUME FilesInv, NEW u \in Users, FlushFile(u)
    PROVE  /\ FilesInv' /\ fs' = fs /\ Head(requests[u])[1] = "flushFile"
           /\ IsDir(Arg(u, 1)) /\ Replied(u, <<"flushFile", Entries(Arg(u, 1))>>)
<1>1. requests[u] # <<>> /\ UNCHANGED <<windowVars, serverVars, acts>>
  BY DEF FlushFile, Asked
<1>2. UNCHANGED <<windowVars, undefined, acts>> /\ UNCHANGED faults /\ fs' = fs
  BY <1>1 DEF serverVars
<1>3. <<"flushFile", Entries(Arg(u, 1))>> \in Answers
  BY EntriesAreShown, AnswersAre
<1>4. Reply(u, <<"flushFile", Entries(Arg(u, 1))>>)
  BY DEF FlushFile
<1>5. Replied(u, <<"flushFile", Entries(Arg(u, 1))>>) /\ MessagesOK' /\ WindowsOK' /\ CountsOK'
  BY <1>1, <1>2, <1>3, <1>4, RepliedTypes
<1> QED BY <1>2, <1>5 DEF FilesInv, FlushFile, Asked

\* What FlushNothing does, and that it keeps the types.
LEMMA NothingStep ==
    ASSUME FilesInv, NEW u \in Users, FlushNothing(u)
    PROVE  /\ FilesInv' /\ fs' = fs /\ UNCHANGED <<answers, windowVars, acts>>
           /\ requests[u] # <<>> /\ requests'[u] = Tail(requests[u])
           /\ \A v \in Users \ {u} : requests'[v] = requests[v]
           /\ \A v \in Users \ {u} : undefined'[v] = undefined[v]
           /\ Head(requests[u])[1] = "flushFile" /\ ~IsDir(Arg(u, 1))
<1>1. requests[u] # <<>> /\ Took(u) /\ UNCHANGED <<fs, faults, windowVars, answers, acts>>
  BY DEF FlushNothing, Asked
<1>2. /\ DOMAIN requests' = Users
      /\ \A v \in Users : requests'[v] \in Seq(Requests(v))
      /\ \A v \in Users \ {u} : requests'[v] = requests[v]
      /\ requests'[u] = Tail(requests[u])
  BY <1>1, TookTypes DEF FilesInv
<1>3. MessagesOK'
  BY <1>1, <1>2 DEF MessagesOK, FilesInv
<1>4. WindowsOK'
  BY <1>1 DEF windowVars, WindowsOK, FilesInv
<1>5. CountsOK' /\ \A v \in Users \ {u} : undefined'[v] = undefined[v]
  BY <1>1 DEF FlushNothing, CountsOK, FilesInv
<1> QED BY <1>1, <1>2, <1>3, <1>4, <1>5 DEF FilesInv, FlushNothing, Asked

\* Below p paths have been removed; p itself only if it is done.
Removes(p, ok) ==
    /\ \A q \in DOMAIN fs' : q \in DOMAIN fs /\ fs'[q] = fs[q]
    /\ \A q \in DOMAIN fs : ~IsPrefix(p, q) => q \in DOMAIN fs'
    /\ ~ok /\ p \in DOMAIN fs => p \in DOMAIN fs'

\* What DelDir does, and that it keeps the types.
LEMMA DelDirStep ==
    ASSUME FilesInv, NEW u \in Users, DelDir(u)
    PROVE  /\ FilesInv' /\ OthersKeep(u) /\ Arg(u, 1) \in Items(u)
           /\ Head(requests[u])[1] = "delDir"
           /\ \E ok \in BOOLEAN : Replied(u, <<"delDir", ok>>) /\ Removes(Arg(u, 1), ok)
<1>1. PICK p \in Items(u) : p = Arg(u, 1) /\ requests[u] # <<>>
  BY AskedIs DEF DelDir, FilesInv, Asked
<1>2. PICK ok \in BOOLEAN, kept \in SUBSET Under(p) :
        /\ Outcome(IsDir(p), ok)
        /\ IF ok THEN kept = {}
           ELSE /\ Exists(p) => p \in kept
                /\ \A q \in kept : q = p \/ Front(q) \in kept
                /\ ~IsDir(p) => kept = Under(p)
        /\ fs' = [q \in (DOMAIN fs \ Under(p)) \cup kept |-> fs[q]]
        /\ Reply(u, <<"delDir", ok>>)
        /\ UNCHANGED <<windowVars, undefined, acts>>
  BY <1>1 DEF DelDir
<1>3. Fault \/ UNCHANGED faults
  BY <1>2 DEF Outcome
<1>4. (\A q \in kept : q = p \/ Front(q) \in kept) /\ (~ok /\ Exists(p) => p \in kept)
  BY <1>2
<1>5. <<"delDir", ok>> \in Answers
  BY AnswersAre DEF Outcomes
<1>6. Replied(u, <<"delDir", ok>>) /\ MessagesOK' /\ WindowsOK' /\ CountsOK'
  BY <1>1, <1>2, <1>3, <1>5, RepliedTypes
<1>7. fs' = [q \in (DOMAIN fs \ Under(p)) \cup kept |-> fs[q]]
  BY <1>2
<1>8. IsTree(fs')
  BY <1>4, <1>7, TreeDelete DEF FilesInv
<1>9. /\ \A q \in DOMAIN fs' : q \in DOMAIN fs /\ fs'[q] = fs[q]
      /\ \A q \in DOMAIN fs : ~IsPrefix(p, q) => q \in DOMAIN fs'
      /\ ~ok /\ p \in DOMAIN fs => p \in DOMAIN fs'
  BY <1>4, <1>7 DEF Under, Exists
<1>10. OthersKeep(u)
  <2>1. ASSUME NEW v \in Users \ {u}, NEW q \in Homes(v) PROVE ~IsPrefix(p, q)
    <3>1. q \in Seq(Elements) /\ q[1] = v /\ p \in Homes(u)
      BY ItemIs, HomeIs
    <3> QED BY <3>1, LongerIsHome
  <2> QED BY <1>9, <2>1 DEF OthersKeep
<1>11. Removes(p, ok)
  BY <1>9 DEF Removes
<1> QED BY <1>1, <1>6, <1>8, <1>10, <1>11 DEF FilesInv, DelDir, Asked

\* What RenameFile does, and that it keeps the types.
LEMMA RenameStep ==
    ASSUME FilesInv, NEW u \in Users, RenameFile(u)
    PROVE  /\ FilesInv' /\ OthersKeep(u)
           /\ Arg(u, 1) \in Items(u) /\ Arg(u, 2) \in AnyHome
           /\ \E op \in {"renameFile", "mvFile"}, ok \in BOOLEAN :
                /\ Head(requests[u])[1] = op /\ Replied(u, <<op, ok>>)
                /\ ok => CanRename(Arg(u, 1), Arg(u, 2)) /\ fs' = Moved(Arg(u, 1), Arg(u, 2))
                /\ ~ok => fs' = fs
<1>0. PICK op \in {"renameFile", "mvFile"}, ok \in BOOLEAN :
        /\ Asked(u, op)
        /\ Outcome(CanRename(Arg(u, 1), Arg(u, 2)), ok)
        /\ fs' = IF ok THEN Moved(Arg(u, 1), Arg(u, 2)) ELSE fs
        /\ Reply(u, <<op, ok>>)
        /\ UNCHANGED <<windowVars, undefined, acts>>
  BY DEF RenameFile
<1>1. PICK old \in Items(u) : old = Arg(u, 1) /\ Arg(u, 2) \in AnyHome
  BY <1>0, AskedIs DEF FilesInv
<1>2. PICK w, new : w \in Users /\ new \in Homes(w) /\ new = Arg(u, 2)
  BY <1>1 DEF AnyHome
<1>3. Fault \/ UNCHANGED faults
  BY <1>0 DEF Outcome
<1>4. (ok => CanRename(old, new) /\ fs' = Moved(old, new)) /\ (~ok => fs' = fs)
  BY <1>0, <1>1, <1>2 DEF Outcome
<1>5. <<op, ok>> \in Answers /\ requests[u] # <<>> /\ Head(requests[u])[1] = op
  BY <1>0, AnswersAre DEF Outcomes, Asked
<1>6. Replied(u, <<op, ok>>) /\ MessagesOK' /\ WindowsOK' /\ CountsOK'
  BY <1>0, <1>3, <1>5, RepliedTypes
<1>7. CASE ok
  <2>1. CanRename(old, new) /\ fs' = Moved(old, new)
    BY <1>4, <1>7
  <2>2. IsTree(fs')
    BY <1>2, <2>1, TreeMoved DEF FilesInv
  <2>3. /\ DOMAIN fs' = (DOMAIN fs \ Under(old)) \cup {Goes(old, new, q) : q \in Under(old)}
        /\ \A q \in DOMAIN fs \ Under(old) : fs'[q] = fs[q]
    BY <1>2, <2>1, MovedIs DEF FilesInv
  <2>4. \A q \in Under(old) : q \in Homes(u)
    BY ItemIs, GoesTo DEF FilesInv
  <2>5. ASSUME NEW v \in Users \ {u}, NEW q \in Homes(v) PROVE q \notin Under(old)
    BY <2>4, OneOwner
  <2>6. OthersKeep(u)
    BY <2>3, <2>5 DEF OthersKeep
  <2> QED BY <1>1, <1>2, <1>4, <1>5, <1>6, <2>2, <2>6 DEF FilesInv
<1>8. CASE ~ok
  <2>1. fs' = fs
    BY <1>4, <1>8
  <2> QED BY <1>1, <1>2, <1>4, <1>5, <1>6, <2>1 DEF FilesInv, OthersKeep
<1> QED BY <1>7, <1>8

\* v has been told of a share, or of nothing.
Told(v) ==
    \/ answers'[v] = answers[v]
    \/ \E m \in Answers :
        m[1] \in {"shareFile", "resend"} /\ answers'[v] = Append(answers[v], m)

\* What ShareFile does, and that it keeps the types.
LEMMA ShareStep ==
    ASSUME FilesInv, NEW u \in Users, ShareFile(u)
    PROVE  /\ FilesInv' /\ fs' = fs /\ UNCHANGED <<windowVars, undefined, acts>>
           /\ requests[u] # <<>> /\ requests'[u] = Tail(requests[u])
           /\ Head(requests[u])[1] = "shareFile"
           /\ \A v \in Users \ {u} : requests'[v] = requests[v]
           /\ \A v \in Users : Told(v)
           /\ answers'[u] = Append(answers[u], <<"shareFile", TRUE>>)
<1>0. /\ requests[u] # <<>> /\ Took(u) /\ UNCHANGED <<windowVars, serverVars, acts>>
      /\ Head(requests[u])[1] = "shareFile"
  BY DEF ShareFile, Asked
<1>1. PICK p : p = Arg(u, 1) /\ p \in AnyItem /\ u \notin Arg(u, 2)
  BY AskedIs DEF ShareFile, FilesInv, AnyItem
<1>2. /\ DOMAIN requests' = Users
      /\ \A v \in Users : requests'[v] \in Seq(Requests(v))
      /\ \A v \in Users \ {u} : requests'[v] = requests[v]
      /\ requests'[u] = Tail(requests[u])
  BY <1>0, TookTypes DEF FilesInv
<1>3. DOMAIN answers' = Users
  BY DEF ShareFile
<1>u. answers'[u] = Append(answers[u], <<"shareFile", TRUE>>)
  <2>1. answers'[u] = CASE u = u -> Append(answers[u], <<"shareFile", TRUE>>)
                        [] u \in Arg(u, 2) -> Append(answers[u], <<"resend", Arg(u, 1)>>)
                        [] OTHER -> answers[u]
    BY DEF ShareFile
  <2> QED BY <2>1, <1>1
<1>4. ASSUME NEW v \in Users PROVE answers'[v] \in Seq(Answers) /\ Told(v)
  <2>1. answers[v] \in Seq(Answers)
    BY DEF FilesInv, MessagesOK
  <2>2. \/ answers'[v] = answers[v] \/ answers'[v] = Append(answers[v], <<"shareFile", TRUE>>)
        \/ answers'[v] = Append(answers[v], <<"resend", p>>)
    <3>1. answers'[v] = CASE v = u -> Append(answers[v], <<"shareFile", TRUE>>)
                          [] v \in Arg(u, 2) -> Append(answers[v], <<"resend", Arg(u, 1)>>)
                          [] OTHER -> answers[v]
      BY DEF ShareFile
    <3>2. CASE v = u /\ v \notin Arg(u, 2)
      BY <3>1, <3>2
    <3>3. CASE v # u /\ v \in Arg(u, 2)
      BY <3>1, <3>3, <1>1
    <3>4. CASE v # u /\ v \notin Arg(u, 2)
      BY <3>1, <3>4
    <3> QED BY <1>1, <3>2, <3>3, <3>4
  <2>3. PICK a, b : a = <<"shareFile", TRUE>> /\ b = <<"resend", p>>
    OBVIOUS
  <2>4. a \in Answers /\ b \in Answers
    BY <1>1, <2>3, AnswersAre
  <2>5. a[1] = "shareFile" /\ b[1] = "resend"
    BY <2>3
  <2>6. answers'[v] = answers[v] \/ answers'[v] = Append(answers[v], a)
           \/ answers'[v] = Append(answers[v], b)
    BY <2>2, <2>3
  <2>7. Append(answers[v], a) \in Seq(Answers) /\ Append(answers[v], b) \in Seq(Answers)
    BY <2>1, <2>4, SentLast
  <2>8. Told(v)
    BY <2>4, <2>5, <2>6 DEF Told
  <2> QED BY <2>1, <2>6, <2>7, <2>8
<1>5. MessagesOK'
  BY <1>2, <1>3, <1>4 DEF MessagesOK
<1>6. UNCHANGED <<fs, faults, undefined>>
  BY <1>0 DEF serverVars
<1>7. WindowsOK' /\ CountsOK'
  BY <1>0, <1>6 DEF WindowsOK, CountsOK, windowVars, FilesInv
<1> QED BY <1>0, <1>2, <1>u, <1>4, <1>5, <1>6, <1>7 DEF FilesInv

\* What ShareFileAgree does, and that it keeps the types.
LEMMA AgreeStep ==
    ASSUME FilesInv, NEW u \in Users, ShareFileAgree(u)
    PROVE  /\ FilesInv' /\ Grows
           /\ Arg(u, 1) \in AnyItem /\ Head(requests[u])[1] = "agree"
           /\ \E failing, m :
                /\ m = Made(Arg(u, 1), Dest(u, Arg(u, 1)), failing)
                /\ fs' = Shared(Arg(u, 1), Dest(u, Arg(u, 1)), m)
                /\ Replied(u, <<"agree", Deciding(Arg(u, 1)) \in m>>)
                /\ IF failing = {} THEN UNCHANGED faults ELSE Fault
<1>1. PICK v, src :
        /\ v \in Users /\ src \in Items(v)
        /\ src = Arg(u, 1) /\ requests[u] # <<>> /\ Head(requests[u])[1] = "agree"
  BY AskedIs DEF ShareFileAgree, FilesInv, Asked
<1>2. PICK dest : dest = Dest(u, src) /\ dest = <<u, Last(src)>>
  BY DEF Dest
<1>3. PICK failing, m :
        /\ IF failing = {} THEN UNCHANGED faults ELSE Fault
        /\ m = Made(src, dest, failing)
        /\ fs' = Shared(src, dest, m)
        /\ Reply(u, <<"agree", Deciding(src) \in m>>)
        /\ UNCHANGED <<windowVars, undefined, acts>>
  <2>1. PICK failing :
          LET a == Arg(u, 1)
              d == <<u, Last(a)>>
              made == {r \in Sources(a) : Copies(d, failing, r)}
              copy == [q \in {d \o r : r \in made} |->
                          IF Exists(a) THEN fs[a \o Within(d, q)] ELSE Dir]
          IN  /\ IF failing = {} THEN UNCHANGED faults ELSE Fault
              /\ fs' = Over(copy, fs)
              /\ Reply(u, <<"agree", Deciding(a) \in made>>)
    BY DEF ShareFileAgree
  <2>2. UNCHANGED <<windowVars, undefined, acts>>
    BY DEF ShareFileAgree
  <2>3. PICK m : m = Made(src, dest, failing)
    OBVIOUS
  <2>4. m = {r \in Sources(src) : Copies(dest, failing, r)}
    BY <2>3 DEF Made
  <2>5. /\ fs' = Over([q \in {dest \o r : r \in m} |->
                          IF Exists(src) THEN fs[src \o Within(dest, q)] ELSE Dir], fs)
        /\ Reply(u, <<"agree", Deciding(src) \in m>>)
    BY <1>1, <1>2, <2>1, <2>4
  <2>6. fs' = Shared(src, dest, m)
    BY <2>5 DEF Shared, CopyOf
  <2> QED BY <2>1, <2>2, <2>3, <2>5, <2>6
<1>4. (Deciding(src) \in m) \in BOOLEAN
  OBVIOUS
<1>5. <<"agree", Deciding(src) \in m>> \in Answers
  BY <1>4, AnswersAre DEF Outcomes
<1>6. /\ Replied(u, <<"agree", Deciding(src) \in m>>)
      /\ MessagesOK' /\ WindowsOK' /\ CountsOK'
  BY <1>1, <1>3, <1>5, RepliedTypes
<1>7. IsTree(fs')
  BY <1>1, <1>2, <1>3, TreeShared DEF FilesInv
<1>8. /\ DOMAIN fs' = DOMAIN fs \cup {Join(dest, r) : r \in m}
      /\ \A q \in DOMAIN fs : fs'[q] = fs[q]
  <2>1. IsShared(fs', src, dest, m)
    BY <1>1, <1>2, <1>3, SharedIs DEF FilesInv
  <2> QED BY <2>1 DEF IsShared
<1>9. Grows
  BY <1>8 DEF Grows
<1>10. src \in AnyItem
  BY <1>1 DEF AnyItem
<1> QED BY <1>1, <1>2, <1>3, <1>6, <1>7, <1>9, <1>10 DEF FilesInv

\* The server keeps the types.
LEMMA ServeTypes ==
    ASSUME FilesInv, NEW u \in Users, Serve(u)
    PROVE  FilesInv'
BY MkdirStep, FlushStep, NothingStep, DelDirStep, RenameStep, ShareStep, AgreeStep DEF Serve

-----------------------------------------------------------------------------
(* What the client makes of the answers.                                   *)

\* u has taken an answer, and nobody else.
Listens(u) ==
    /\ answers[u] # <<>> /\ Head(answers[u]) \in Answers /\ answers'[u] = Tail(answers[u])
    /\ \A v \in Users \ {u} : requests'[v] = requests[v] /\ answers'[v] = answers[v]
    /\ UNCHANGED <<serverVars, m_strCurPath, acts>>

\* Taking an answer keeps the types of the queue.
LEMMA HeardIs ==
    ASSUME FilesInv, NEW u \in Users, answers[u] # <<>>, Heard(u)
    PROVE  /\ Head(answers[u]) \in Answers
           /\ DOMAIN answers' = Users
           /\ \A v \in Users : answers'[v] \in Seq(Answers)
           /\ \A v \in Users \ {u} : answers'[v] = answers[v]
           /\ answers'[u] = Tail(answers[u])
BY HeardTypes, TakenFirst DEF FilesInv, MessagesOK

\* What UpdateFileList does, and that it keeps the types.
LEMMA UpdateStep ==
    ASSUME FilesInv, NEW u \in Users, UpdateFileList(u)
    PROVE  /\ FilesInv' /\ Listens(u) /\ Head(answers[u])[1] = "flushFile"
           /\ requests'[u] = requests[u] /\ list'[u] = Answer(u)
           /\ \A v \in Users \ {u} : list'[v] = list[v]
<1>1. /\ answers[u] # <<>> /\ Head(answers[u])[1] = "flushFile" /\ Heard(u)
      /\ list' = [list EXCEPT ![u] = Answer(u)]
      /\ UNCHANGED <<serverVars, m_strCurPath, m_strMvFilePath, m_strShareFilePath, requests,
                     acts>>
  BY DEF UpdateFileList, Answered
<1>2. Head(answers[u]) \in Answers /\ answers'[u] = Tail(answers[u])
  BY <1>1, HeardIs
<1>3. \A v \in Users \ {u} : answers'[v] = answers[v]
  BY <1>1, HeardIs
<1>4. MessagesOK'
  BY <1>1, HeardIs DEF MessagesOK, FilesInv
<1>5. Answer(u) \in Shown
  BY <1>1, <1>2, AnswerParts DEF Answer
<1>6. DOMAIN list = Users /\ \A v \in Users : list[v] \in Shown
  BY DEF FilesInv, WindowsOK
<1>7. list'[u] = Answer(u) /\ DOMAIN list' = Users /\ \A v \in Users \ {u} : list'[v] = list[v]
  BY <1>1, <1>6
<1>8. \A v \in Users : list'[v] \in Shown
  BY <1>5, <1>6, <1>7
<1>9. WindowsOK'
  BY <1>1, <1>7, <1>8 DEF WindowsOK, FilesInv
<1>10. CountsOK' /\ IsTree(fs)'
  BY <1>1 DEF CountsOK, FilesInv, serverVars
<1> QED BY <1>1, <1>2, <1>3, <1>4, <1>7, <1>9, <1>10 DEF FilesInv, Listens

\* An answer after which u asks for something, or for nothing.
LEMMA HearTypes ==
    ASSUME FilesInv, NEW u \in Users, answers[u] # <<>>, Heard(u),
           NEW m \in Requests(u), Send(u, m) \/ UNCHANGED requests,
           UNCHANGED <<serverVars, windowVars, acts>>
    PROVE  /\ FilesInv' /\ Listens(u) /\ UNCHANGED list
           /\ Send(u, m) => requests'[u] = Append(requests[u], m)
<1>1. /\ Head(answers[u]) \in Answers
      /\ DOMAIN answers' = Users
      /\ \A v \in Users : answers'[v] \in Seq(Answers)
      /\ \A v \in Users \ {u} : answers'[v] = answers[v]
      /\ answers'[u] = Tail(answers[u])
  BY HeardIs
<1>2. /\ DOMAIN requests' = Users
      /\ \A v \in Users : requests'[v] \in Seq(Requests(v))
      /\ \A v \in Users \ {u} : requests'[v] = requests[v]
      /\ Send(u, m) => requests'[u] = Append(requests[u], m)
  <2>1. CASE Send(u, m)
    BY <2>1, SendTypes DEF FilesInv
  <2>2. CASE UNCHANGED requests /\ ~Send(u, m)
    BY <2>2 DEF FilesInv, MessagesOK
  <2> QED BY <2>1, <2>2
<1>3. MessagesOK'
  BY <1>1, <1>2 DEF MessagesOK
<1>4. WindowsOK' /\ CountsOK' /\ IsTree(fs)'
  BY DEF WindowsOK, CountsOK, windowVars, serverVars, FilesInv
<1>5. UNCHANGED <<m_strCurPath, list>>
  BY DEF windowVars
<1> QED BY <1>1, <1>2, <1>3, <1>4, <1>5 DEF FilesInv, Listens

\* What Refresh does, and that it keeps the types.
LEMMA RefreshStep ==
    ASSUME FilesInv, NEW u \in Users, Refresh(u)
    PROVE  /\ FilesInv' /\ Listens(u) /\ UNCHANGED list
           /\ Head(answers[u])[1] \in Outcomes /\ Answer(u) \in BOOLEAN
           /\ IF Answer(u)
              THEN requests'[u] = Append(requests[u], <<"flushFile", m_strCurPath[u]>>)
              ELSE requests'[u] = requests[u]
<1>1. /\ answers[u] # <<>> /\ Head(answers[u])[1] \in Outcomes /\ Heard(u)
      /\ IF Answer(u) THEN Send(u, FlushOf(m_strCurPath[u])) ELSE UNCHANGED requests
      /\ UNCHANGED <<serverVars, windowVars, acts>>
  BY DEF Refresh, Answered, Outcomes
<1>2. PICK m \in Requests(u) : m = FlushOf(m_strCurPath[u])
  BY RequestsAre DEF FlushOf, FilesInv, WindowsOK
<1>3. Send(u, m) \/ UNCHANGED requests
  BY <1>1, <1>2
<1>4. /\ FilesInv' /\ Listens(u) /\ UNCHANGED list
      /\ Send(u, m) => requests'[u] = Append(requests[u], m)
  BY <1>1, <1>3, HearTypes
<1>5. Answer(u) \in BOOLEAN
  BY <1>1, <1>4, AnswerParts DEF Answer, Listens
<1> QED BY <1>1, <1>2, <1>4, <1>5 DEF FlushOf

\* What ShowShared and ShareFileResend do, and that they keep the types.
LEMMA SharedStep ==
    ASSUME FilesInv, NEW u \in Users, ShowShared(u) \/ ShareFileResend(u)
    PROVE  /\ FilesInv' /\ Listens(u) /\ UNCHANGED list
           /\ Head(answers[u])[1] \in {"shareFile", "resend"}
           /\ \/ requests'[u] = requests[u]
              \/ \E p \in AnyItem : requests'[u] = Append(requests[u], <<"agree", p>>)
<1>1. CASE ShowShared(u)
  <2>1. /\ answers[u] # <<>> /\ Head(answers[u])[1] = "shareFile" /\ Heard(u)
        /\ UNCHANGED <<serverVars, windowVars, requests, acts>>
    BY <1>1 DEF ShowShared, Answered
  <2>2. PICK m \in Requests(u) : m = FlushOf(m_strCurPath[u])
    BY RequestsAre DEF FlushOf, FilesInv, WindowsOK
  <2> QED BY <2>1, <2>2, HearTypes
<1>2. CASE ShareFileResend(u)
  <2>1. /\ answers[u] # <<>> /\ Head(answers[u])[1] = "resend" /\ Heard(u)
        /\ Send(u, <<"agree", Answer(u)>>) \/ UNCHANGED requests
        /\ UNCHANGED <<serverVars, windowVars, acts>>
    BY <1>2 DEF ShareFileResend, Answered
  <2>2. Answer(u) \in AnyItem
    BY <2>1, HeardIs, AnswerParts DEF Answer
  <2>3. PICK m \in Requests(u) : m = <<"agree", Answer(u)>>
    BY <2>2, RequestsAre
  <2>4. /\ FilesInv' /\ Listens(u) /\ UNCHANGED list
        /\ Send(u, m) => requests'[u] = Append(requests[u], m)
    BY <2>1, <2>3, HearTypes
  <2> QED BY <2>1, <2>2, <2>3, <2>4
<1> QED BY <1>1, <1>2

\* The types, to begin with and after each step.
LEMMA FilesInitInv == FilesInit => FilesInv
<1> SUFFICES ASSUME FilesInit PROVE FilesInv
  OBVIOUS
<1>1. IsTree(fs)
  BY PathsAssumption DEF FilesInit
<1>2. MessagesOK
  <2>1. \A u \in Users : FlushOf(<<u>>) \in Requests(u)
    BY RootIs, RequestsAre DEF FlushOf
  <2>2. /\ DOMAIN requests = Users /\ answers = [u \in Users |-> <<>>]
        /\ \A u \in Users : requests[u] = <<>> \/ requests[u] = <<FlushOf(<<u>>)>>
    BY DEF FilesInit
  <2>3. ASSUME NEW u \in Users PROVE requests[u] \in Seq(Requests(u))
    <3>1. PICK m \in Requests(u) : m = FlushOf(<<u>>)
      BY <2>1
    <3>2. <<m>> \in Seq(Requests(u)) /\ <<>> \in Seq(Requests(u))
      OBVIOUS
    <3>3. requests[u] = <<>> \/ requests[u] = <<m>>
      BY <2>2, <3>1
    <3> QED BY <3>2, <3>3
  <2> QED BY <2>2, <2>3 DEF MessagesOK
<1>3. WindowsOK
  <2>1. \A u \in Users : <<u>> \in Homes(u) /\ Entries(<<u>>) \in Shown
    BY RootIs, EntriesAreShown
  <2> QED BY <2>1 DEF FilesInit, WindowsOK
<1>4. CountsOK
  BY FilesAssumption DEF FilesInit, CountsOK
<1> QED BY <1>1, <1>2, <1>3, <1>4 DEF FilesInv

\* No step of the server or of a client breaks the invariant.
LEMMA FilesNextInv == FilesInv /\ [FilesNext]_filesVars => FilesInv'
<1> SUFFICES ASSUME FilesInv, [FilesNext]_filesVars PROVE FilesInv'
  OBVIOUS
<1>1. ASSUME NEW u \in Acting, Act(u) PROVE FilesInv'
  BY <1>1, ActIs, FilesAssumption
<1>2. ASSUME NEW u \in Users, Serve(u) PROVE FilesInv'
  BY <1>2, ServeTypes
<1>3. ASSUME NEW u \in Users, Hear(u) PROVE FilesInv'
  BY <1>3, UpdateStep, RefreshStep, SharedStep DEF Hear
<1>4. CASE UNCHANGED filesVars
  BY <1>4 DEF FilesInv, filesVars, serverVars, windowVars, messageVars, MessagesOK, WindowsOK,
              CountsOK
<1> QED BY <1>1, <1>2, <1>3, <1>4 DEF FilesNext

\* Type correctness: whatever the handlers of msghandler.cpp do to the file
\* system, with whatever names are typed, it stays trees below the users'
\* directories, and the client of a user is always somewhere in the user's own.
THEOREM FilesTypeCorrect == FilesSpec => []FilesTypeOK
<1>1. FilesInv => FilesTypeOK
  <2> SUFFICES ASSUME FilesInv PROVE FilesTypeOK
    OBVIOUS
  <2>1. ASSUME NEW u \in Users
        PROVE  /\ IsPrefix(<<u>>, m_strCurPath[u]) /\ list[u] \subseteq Names \X BOOLEAN
               /\ m_strMvFilePath[u] = NoPath \/ m_strMvFilePath[u][1] = u
    <3>1. /\ m_strCurPath[u] \in Homes(u) /\ list[u] \in Shown
          /\ m_strMvFilePath[u] = NoPath \/ m_strMvFilePath[u] \in Items(u)
      BY DEF FilesInv, WindowsOK
    <3> QED BY <3>1, HomeIs, ItemIs DEF Shown
  <2> QED BY <2>1 DEF FilesInv, CountsOK, FilesTypeOK
<1> QED BY <1>1, FilesInitInv, FilesNextInv, PTL DEF FilesSpec

-----------------------------------------------------------------------------
(* The client of a patient user asks only for the list of a directory that *)
(* exists.                                                                 *)

Destroys(m) == m[1] \in {"delDir", "renameFile", "mvFile"}
Done(m) == m[1] \in Outcomes /\ m[2]

FlushAsked(u) == \E i \in 1..Len(requests[u]) : requests[u][i][1] = "flushFile"
FlushAnswered(u) == \E i \in 1..Len(answers[u]) : answers[u][i][1] = "flushFile"
DoneAnswered(u) == \E i \in 1..Len(answers[u]) : Done(answers[u][i])

\* What the list L says is a directory in c is one.
ListsDirs(L, c) == \A e \in L : e[2] => IsDir(Append(c, e[1]))

AsksHere(u) ==
    \A i \in 1..Len(requests[u]) :
        requests[u][i][1] = "flushFile" => requests[u][i][2] = m_strCurPath[u]

DestroysAlone(u) ==
    \A i \in 1..Len(requests[u]) :
        Destroys(requests[u][i]) =>
            i = 1 /\ ~FlushAnswered(u) /\ Leaves(requests[u][i], m_strCurPath[u])

AnswersDirs(u) ==
    \A i \in 1..Len(answers[u]) :
        answers[u][i][1] = "flushFile" => ListsDirs(answers[u][i][2], m_strCurPath[u])

ListIsDue(u) == FlushAsked(u) \/ FlushAnswered(u) \/ DoneAnswered(u)

\* Where u is, is a directory, or else is the own one, which could not be made.
Stands(u) == IsDir(m_strCurPath[u]) \/ m_strCurPath[u] = <<u>>

Patient(u) ==
    /\ Stands(u) /\ AsksHere(u) /\ DestroysAlone(u) /\ AnswersDirs(u)
    /\ ListsDirs(list[u], m_strCurPath[u]) \/ ListIsDue(u)

PatientInv == (\E v \in Users : undefined[v]) \/ \A u \in Users \ hasty : Patient(u)

\* What is u's has its types.
LEMMA QueuesTyped ==
    ASSUME FilesInv, NEW u \in Users
    PROVE  /\ requests[u] \in Seq(Requests(u)) /\ answers[u] \in Seq(Answers)
           /\ m_strCurPath[u] \in Homes(u) /\ list[u] \in Shown
BY DEF FilesInv, MessagesOK, WindowsOK

\* Who stays in a directory that stays, stands as before.
LEMMA StandsStill ==
    ASSUME NEW u, Stands(u), m_strCurPath'[u] = m_strCurPath[u],
           IsDir(m_strCurPath[u]) => IsDir(m_strCurPath[u])'
    PROVE  Stands(u)'
BY DEF Stands

\* A list stays right about directories while no directory goes.
LEMMA DirsStay ==
    ASSUME FilesInv, NEW u \in Users, NEW L \in Shown, NEW c \in Homes(u),
           \A q \in Homes(u) : IsDir(q) => IsDir(q)', ListsDirs(L, c)
    PROVE  ListsDirs(L, c)'
<1>1. \A e \in L : e[1] \in Names
  BY DEF Shown
<1>2. \A e \in L : Append(c, e[1]) \in Homes(u)
  BY <1>1, AppendIs, ItemIs
<1> QED BY <1>2 DEF ListsDirs

\* Nothing has happened to u, but that u was told of a share.
Left(u) ==
    /\ requests'[u] = requests[u] /\ Told(u)
    /\ m_strCurPath'[u] = m_strCurPath[u] /\ list'[u] = list[u]

\* What is in a queue when a message has been added.
LEMMA MoreAnswers ==
    ASSUME FilesInv, NEW u \in Users, NEW m \in Answers, answers'[u] = Append(answers[u], m)
    PROVE  /\ Len(answers'[u]) = Len(answers[u]) + 1
           /\ answers'[u][Len(answers[u]) + 1] = m
           /\ \A i \in 1..Len(answers[u]) :
                i \in 1..Len(answers'[u]) /\ answers'[u][i] = answers[u][i]
           /\ \A i \in 1..Len(answers'[u]) : i \in 1..Len(answers[u]) \/ i = Len(answers[u]) + 1
           /\ Len(answers[u]) + 1 \in 1..Len(answers'[u])
<1>1. answers[u] \in Seq(Answers)
  BY QueuesTyped
<1> QED BY <1>1, SentLast

\* The same of the requests, and what is left when the first is taken.
LEMMA MoreRequests ==
    ASSUME FilesInv, NEW u \in Users, NEW m \in Requests(u),
           requests'[u] = Append(requests[u], m)
    PROVE  /\ Len(requests'[u]) = Len(requests[u]) + 1
           /\ requests'[u][Len(requests[u]) + 1] = m
           /\ \A i \in 1..Len(requests[u]) :
                i \in 1..Len(requests'[u]) /\ requests'[u][i] = requests[u][i]
           /\ \A i \in 1..Len(requests'[u]) : i \in 1..Len(requests[u]) \/ i = Len(requests[u]) + 1
           /\ Len(requests[u]) + 1 \in 1..Len(requests'[u])
<1>1. requests[u] \in Seq(Requests(u))
  BY QueuesTyped
<1> QED BY <1>1, SentLast

\* What is left of the requests when the first is taken.
LEMMA FewerRequests ==
    ASSUME FilesInv, NEW u \in Users, requests[u] # <<>>, requests'[u] = Tail(requests[u])
    PROVE  /\ Head(requests[u]) = requests[u][1] /\ 1 \in 1..Len(requests[u])
           /\ \A i \in 1..Len(requests'[u]) :
                i + 1 \in 2..Len(requests[u]) /\ requests'[u][i] = requests[u][i + 1]
           /\ \A i \in 2..Len(requests[u]) :
                i - 1 \in 1..Len(requests'[u]) /\ requests'[u][i - 1] = requests[u][i]
<1>1. requests[u] \in Seq(Requests(u))
  BY QueuesTyped
<1>2. PICK s \in Seq(Requests(u)) : s = requests[u]
  BY <1>1
<1>3. PICK t \in Seq(Requests(u)) : t = requests'[u]
  BY <1>1, TakenFirst
<1>4. s # <<>> /\ t = Tail(s)
  BY <1>2, <1>3
<1>5. /\ Head(s) = s[1] /\ 1 \in 1..Len(s)
      /\ \A i \in 1..Len(t) : i + 1 \in 1..Len(s) /\ t[i] = s[i + 1]
      /\ \A i \in 2..Len(s) : i - 1 \in 1..Len(t) /\ t[i - 1] = s[i]
  BY <1>4, TakenFirst
<1>6. \A i \in 1..Len(t) : i + 1 \in 2..Len(s)
  BY <1>5
<1> QED BY <1>2, <1>3, <1>5, <1>6

\* What is left of the answers when the first is taken.
LEMMA FewerAnswers ==
    ASSUME FilesInv, NEW u \in Users, answers[u] # <<>>, answers'[u] = Tail(answers[u])
    PROVE  /\ Head(answers[u]) = answers[u][1] /\ 1 \in 1..Len(answers[u])
           /\ \A i \in 1..Len(answers'[u]) :
                i + 1 \in 2..Len(answers[u]) /\ answers'[u][i] = answers[u][i + 1]
           /\ \A i \in 2..Len(answers[u]) :
                i - 1 \in 1..Len(answers'[u]) /\ answers'[u][i - 1] = answers[u][i]
<1>1. answers[u] \in Seq(Answers)
  BY QueuesTyped
<1>2. PICK s \in Seq(Answers) : s = answers[u]
  BY <1>1
<1>3. PICK t \in Seq(Answers) : t = answers'[u]
  BY <1>1, TakenFirst
<1>4. s # <<>> /\ t = Tail(s)
  BY <1>2, <1>3
<1>5. /\ Head(s) = s[1] /\ 1 \in 1..Len(s)
      /\ \A i \in 1..Len(t) : i + 1 \in 1..Len(s) /\ t[i] = s[i + 1]
      /\ \A i \in 2..Len(s) : i - 1 \in 1..Len(t) /\ t[i - 1] = s[i]
  BY <1>4, TakenFirst
<1>6. \A i \in 1..Len(t) : i + 1 \in 2..Len(s)
  BY <1>5
<1> QED BY <1>2, <1>3, <1>5, <1>6

\* What others do leaves a patient user as it was.
LEMMA PatientLeft ==
    ASSUME FilesInv, NEW u \in Users, Patient(u), Left(u),
           \A q \in Homes(u) : IsDir(q) => IsDir(q)'
    PROVE  Patient(u)'
<1>0. /\ answers[u] \in Seq(Answers) /\ m_strCurPath[u] \in Homes(u) /\ list[u] \in Shown
      /\ requests'[u] = requests[u] /\ list'[u] = list[u]
      /\ m_strCurPath'[u] = m_strCurPath[u]
  BY QueuesTyped DEF Left
<1>1. /\ \A i \in 1..Len(answers'[u]) : answers'[u][i][1] = "flushFile" =>
            i \in 1..Len(answers[u]) /\ answers'[u][i] = answers[u][i]
      /\ \A i \in 1..Len(answers[u]) :
            i \in 1..Len(answers'[u]) /\ answers'[u][i] = answers[u][i]
  <2>1. CASE answers'[u] = answers[u]
    BY <2>1
  <2>2. CASE answers'[u] # answers[u]
    <3>1. PICK m \in Answers :
            m[1] \in {"shareFile", "resend"} /\ answers'[u] = Append(answers[u], m)
      BY <2>2 DEF Left, Told
    <3> QED BY <3>1, MoreAnswers
  <2> QED BY <2>1, <2>2
<1>2. Stands(u)'
  <2>1. PICK c \in Homes(u) : c = m_strCurPath[u]
    BY <1>0
  <2>2. IsDir(c) => IsDir(c)'
    OBVIOUS
  <2>3. IsDir(m_strCurPath[u]) => IsDir(m_strCurPath[u])'
    BY <1>0, <2>1, <2>2 DEF IsDir
  <2> QED BY <1>0, <2>3, StandsStill DEF Patient
<1>3. AsksHere(u)'
  BY <1>0 DEF Patient, AsksHere
<1>4. FlushAnswered(u)' <=> FlushAnswered(u)
  BY <1>1 DEF FlushAnswered
<1>5. DestroysAlone(u)'
  BY <1>0, <1>4 DEF Patient, DestroysAlone
<1>6. AnswersDirs(u)'
  <2> SUFFICES ASSUME NEW i \in 1..Len(answers'[u]), answers'[u][i][1] = "flushFile"
               PROVE  ListsDirs(answers[u][i][2], m_strCurPath[u])'
    BY DEF AnswersDirs
  <2>1. i \in 1..Len(answers[u]) /\ answers'[u][i] = answers[u][i]
    BY <1>1
  <2>2. PICK L \in Shown : L = answers[u][i][2]
    BY <1>0, <2>1, AnswerParts
  <2>3. ListsDirs(L, m_strCurPath[u])
    BY <2>1, <2>2 DEF Patient, AnswersDirs
  <2>c. PICK c \in Homes(u) : c = m_strCurPath[u]
    BY <1>0
  <2>4. ListsDirs(L, c)'
    BY <2>3, <2>c, DirsStay
  <2> QED BY <1>0, <2>1, <2>2, <2>c, <2>4 DEF ListsDirs
<1>7. ListIsDue(u) => ListIsDue(u)'
  BY <1>0, <1>1 DEF ListIsDue, FlushAsked, FlushAnswered, DoneAnswered
<1>8. ListsDirs(list[u], m_strCurPath[u]) => ListsDirs(list[u], m_strCurPath[u])'
  <2>1. PICK c \in Homes(u), L \in Shown : c = m_strCurPath[u] /\ L = list[u]
    BY <1>0
  <2>2. ListsDirs(L, c) => ListsDirs(L, c)'
    BY DirsStay
  <2> QED BY <1>0, <2>1, <2>2 DEF ListsDirs
<1> QED BY <1>2, <1>3, <1>5, <1>6, <1>7, <1>8 DEF Patient

\* A user for whom nothing is under way has the one request just sent.
LEMMA OnlyRequest ==
    ASSUME FilesInv, NEW u \in Users, Pending(u) = 0, NEW m \in Requests(u),
           requests'[u] = Append(requests[u], m), UNCHANGED answers
    PROVE  /\ requests[u] = <<>> /\ answers[u] = <<>> /\ answers'[u] = <<>>
           /\ 1 \in 1..Len(requests'[u]) /\ requests'[u][1] = m
           /\ \A i \in 1..Len(requests'[u]) : i = 1
<1>1. requests[u] \in Seq(Requests(u)) /\ answers[u] \in Seq(Answers)
  BY QueuesTyped
<1>2. Len(requests[u]) = 0 /\ Len(answers[u]) = 0
  <2>1. Len(requests[u]) \in Nat /\ Len(answers[u]) \in Nat
    BY <1>1
  <2>2. \A a, b \in Nat : a + b = 0 => a = 0 /\ b = 0
    OBVIOUS
  <2> QED BY <2>1, <2>2, Zenon DEF Pending
<1>3. requests[u] = <<>> /\ answers[u] = <<>>
  BY <1>1, <1>2
<1>4. requests'[u] = <<m>>
  BY <1>3
<1>5. Len(<<m>>) = 1 /\ <<m>>[1] = m
  OBVIOUS
<1> QED BY <1>3, <1>4, <1>5

\* When nothing is under way, no list is due.
LEMMA NothingIsDue ==
    ASSUME FilesInv, NEW u \in Users, Pending(u) = 0
    PROVE  /\ ~FlushAsked(u) /\ ~FlushAnswered(u) /\ ~DoneAnswered(u)
<1>1. requests[u] \in Seq(Requests(u)) /\ answers[u] \in Seq(Answers)
  BY QueuesTyped
<1>2. Len(requests[u]) = 0 /\ Len(answers[u]) = 0
  <2>1. Len(requests[u]) \in Nat /\ Len(answers[u]) \in Nat
    BY <1>1
  <2>2. \A a, b \in Nat : a + b = 0 => a = 0 /\ b = 0
    OBVIOUS
  <2> QED BY <2>1, <2>2, Zenon DEF Pending
<1>3. 1..Len(requests[u]) = {} /\ 1..Len(answers[u]) = {}
  BY <1>2
<1> QED BY <1>3 DEF FlushAsked, FlushAnswered, DoneAnswered

\* A user for whom nothing is under way stays patient at a click.
LEMMA PatientEnters ==
    ASSUME FilesInv, NEW u \in Users, Patient(u), Pending(u) = 0, NEW p, Enters(u, p)
    PROVE  Patient(u)'
<1>0. p \in Homes(u) /\ Enter(u, p) /\ <<"flushFile", p>> \in Requests(u)
  BY RequestsAre DEF Enters
<1>m. PICK m \in Requests(u) : m = <<"flushFile", p>>
  BY <1>0
<1>1. /\ UNCHANGED <<answers, fs, undefined>> /\ requests'[u] = Append(requests[u], m)
      /\ m_strCurPath'[u] = p /\ UNCHANGED list
  BY <1>0, <1>m, ClickTypes, EnterWindows DEF Enter, FlushOf, FilesInv
<1>2. /\ 1 \in 1..Len(requests'[u]) /\ requests'[u][1] = m
      /\ \A i \in 1..Len(requests'[u]) : i = 1
      /\ answers'[u] = <<>>
  BY <1>1, OnlyRequest
<1>3. IsDir(p) \/ p = <<u>>
  <2>c. PICK c \in Homes(u) : c = m_strCurPath[u]
    BY QueuesTyped
  <2>1. CASE p = c
    BY <2>c, <2>1 DEF Patient, Stands
  <2>2. CASE c # <<u>> /\ p = Front(c)
    <3>1. c \in DOMAIN fs /\ Len(c) > 1
      BY <2>c, <2>2, HomeIs, ItemIs DEF Patient, Stands, IsDir, Exists
    <3> QED BY <2>2, <3>1 DEF FilesInv, IsTree, IsDir, Exists
  <2>3. CASE \E e \in list[u] : e[2] /\ p = Here(u, e[1])
    <3>1. ListsDirs(list[u], c)
      BY <2>c, NothingIsDue DEF Patient, ListIsDue
    <3> QED BY <2>c, <2>3, <3>1 DEF ListsDirs, Here
  <2> QED BY <2>c, <2>1, <2>2, <2>3 DEF Enters
<1>4. m[1] = "flushFile" /\ m[2] = p /\ ~Destroys(m)
  BY <1>m DEF Destroys
<1>5. Stands(u)'
  BY <1>1, <1>3 DEF Stands, IsDir, Exists
<1>6. AsksHere(u)' /\ DestroysAlone(u)' /\ FlushAsked(u)'
  BY <1>1, <1>2, <1>4 DEF AsksHere, DestroysAlone, FlushAsked
<1>7. AnswersDirs(u)'
  BY <1>2 DEF AnswersDirs
<1> QED BY <1>5, <1>6, <1>7 DEF Patient, ListIsDue

\* A user for whom nothing is under way stays patient at a request.
LEMMA PatientAsks ==
    ASSUME FilesInv, NEW u \in Users, Patient(u), Pending(u) = 0, NEW m, Asks(u, m)
    PROVE  Patient(u)'
<1>0. /\ m \in Requests(u) /\ Click(u, m) /\ UNCHANGED <<m_strCurPath, list>>
      /\ m[1] # "flushFile" /\ Leaves(m, m_strCurPath[u])
  BY DEF Asks
<1>1. UNCHANGED <<answers, fs, undefined>> /\ requests'[u] = Append(requests[u], m)
  BY <1>0, ClickTypes
<1>2. /\ 1 \in 1..Len(requests'[u]) /\ requests'[u][1] = m
      /\ \A i \in 1..Len(requests'[u]) : i = 1
      /\ answers'[u] = <<>>
  BY <1>0, <1>1, OnlyRequest
<1>3. ListsDirs(list[u], m_strCurPath[u]) /\ Stands(u)
  BY NothingIsDue DEF Patient, ListIsDue
<1>4. (Stands(u) /\ ListsDirs(list[u], m_strCurPath[u]))'
  BY <1>0, <1>1, <1>3 DEF Stands, IsDir, Exists, ListsDirs
<1>5. ~FlushAnswered(u)'
  BY <1>2 DEF FlushAnswered
<1>6. AsksHere(u)' /\ DestroysAlone(u)'
  BY <1>0, <1>2, <1>5 DEF AsksHere, DestroysAlone
<1>7. AnswersDirs(u)'
  BY <1>2 DEF AnswersDirs
<1> QED BY <1>4, <1>6, <1>7 DEF Patient

\* The server has taken what u asked for first, and answers m.
LEMMA PatientServed ==
    ASSUME FilesInv, FilesInv', NEW u \in Users, Patient(u),
           requests[u] # <<>>, requests'[u] = Tail(requests[u]),
           NEW m \in Answers, answers'[u] = Append(answers[u], m),
           UNCHANGED <<m_strCurPath, list>>,
           Stands(u)',
           m[1] = "flushFile" => ListsDirs(m[2], m_strCurPath[u])',
           ~FlushAnswered(u) \/ \A q \in Homes(u) : IsDir(q) => IsDir(q)',
           \/ m[1] = "flushFile" \/ Done(m)
           \/ /\ Head(requests[u])[1] # "flushFile"
              /\ ListsDirs(list[u], m_strCurPath[u]) => ListsDirs(list[u], m_strCurPath[u])'
    PROVE  Patient(u)'
<1>0. /\ answers[u] \in Seq(Answers) /\ m_strCurPath[u] \in Homes(u) /\ list[u] \in Shown
      /\ UNCHANGED m_strCurPath /\ UNCHANGED list
  BY QueuesTyped
<1>1. /\ Head(requests[u]) = requests[u][1] /\ 1 \in 1..Len(requests[u])
      /\ \A i \in 1..Len(requests'[u]) :
            i + 1 \in 2..Len(requests[u]) /\ requests'[u][i] = requests[u][i + 1]
      /\ \A i \in 2..Len(requests[u]) :
            i - 1 \in 1..Len(requests'[u]) /\ requests'[u][i - 1] = requests[u][i]
  BY FewerRequests
<1>2. /\ answers'[u][Len(answers[u]) + 1] = m
      /\ \A i \in 1..Len(answers[u]) : i \in 1..Len(answers'[u]) /\ answers'[u][i] = answers[u][i]
      /\ \A i \in 1..Len(answers'[u]) : i \in 1..Len(answers[u]) \/ i = Len(answers[u]) + 1
      /\ Len(answers[u]) + 1 \in 1..Len(answers'[u])
  BY MoreAnswers
<1>3. AsksHere(u)'
  <2> SUFFICES ASSUME NEW i \in 1..Len(requests'[u]), requests'[u][i][1] = "flushFile"
               PROVE  requests'[u][i][2] = m_strCurPath'[u]
    BY DEF AsksHere
  <2>1. PICK j \in 1..Len(requests[u]) : requests'[u][i] = requests[u][j]
    BY <1>1
  <2> QED BY <1>0, <2>1 DEF Patient, AsksHere
<1>4. DestroysAlone(u)'
  <2> SUFFICES ASSUME NEW i \in 1..Len(requests'[u]), Destroys(requests[u][i])' PROVE FALSE
    BY DEF DestroysAlone
  <2>1. PICK j \in 1..Len(requests[u]) : requests'[u][i] = requests[u][j] /\ j # 1
    BY <1>1
  <2> QED BY <2>1 DEF Patient, DestroysAlone, Destroys
<1>5. AnswersDirs(u)'
  <2> SUFFICES ASSUME NEW i \in 1..Len(answers'[u]), answers'[u][i][1] = "flushFile"
               PROVE  ListsDirs(answers[u][i][2], m_strCurPath[u])'
    BY DEF AnswersDirs
  <2>1. CASE i \in 1..Len(answers[u])
    <3>1. answers'[u][i] = answers[u][i] /\ FlushAnswered(u)
      BY <1>2, <2>1 DEF FlushAnswered
    <3>2. PICK L \in Shown, c \in Homes(u) : L = answers[u][i][2] /\ c = m_strCurPath[u]
      BY <1>0, <2>1, <3>1, AnswerParts
    <3>3. ListsDirs(L, c)
      BY <2>1, <3>1, <3>2 DEF Patient, AnswersDirs
    <3>4. ListsDirs(L, c)'
      BY <3>1, <3>3, DirsStay
    <3> QED BY <1>0, <3>1, <3>2, <3>4 DEF ListsDirs
  <2>2. CASE i = Len(answers[u]) + 1
    BY <1>2, <2>2
  <2> QED BY <1>2, <2>1, <2>2
<1>6. ListsDirs(list[u], m_strCurPath[u])' \/ ListIsDue(u)'
  <2>1. CASE m[1] = "flushFile" \/ Done(m)
    BY <1>2, <2>1 DEF ListIsDue, FlushAnswered, DoneAnswered
  <2>2. CASE FlushAnswered(u) \/ DoneAnswered(u)
    BY <1>2, <2>2 DEF ListIsDue, FlushAnswered, DoneAnswered
  <2>3. CASE FlushAsked(u) /\ Head(requests[u])[1] # "flushFile"
    <3>1. PICK i \in 1..Len(requests[u]) : requests[u][i][1] = "flushFile"
      BY <2>3 DEF FlushAsked
    <3>2. i # 1
      BY <1>1, <2>3, <3>1
    <3>3. i \in 2..Len(requests[u])
      BY <3>2
    <3>4. i - 1 \in 1..Len(requests'[u]) /\ requests'[u][i - 1][1] = "flushFile"
      BY <1>1, <3>1, <3>3
    <3> QED BY <3>4 DEF ListIsDue, FlushAsked
  <2> QED BY <2>1, <2>2, <2>3 DEF Patient, ListIsDue
<1> QED BY <1>3, <1>4, <1>5, <1>6 DEF Patient

\* What a reply leaves as it was.
LEMMA RepliedIs ==
    ASSUME NEW u, NEW m, Replied(u, m)
    PROVE  /\ requests[u] # <<>> /\ requests'[u] = Tail(requests[u])
           /\ m \in Answers /\ answers'[u] = Append(answers[u], m)
           /\ UNCHANGED <<m_strCurPath, list, undefined, acts>>
BY DEF Replied, windowVars

\* Paths that have been added are no directory that has gone.
LEMMA GrowsKeepsDirs ==
    ASSUME Grows, NEW q
    PROVE  IsDir(q) => IsDir(q)'
BY DEF Grows, IsDir, Exists

\* A patient user whose request only added paths stays patient.
LEMMA PatientGrows ==
    ASSUME FilesInv, FilesInv', NEW u \in Users, Patient(u), Grows,
           NEW m, Replied(u, m), Head(requests[u])[1] # "flushFile", m[1] # "flushFile"
    PROVE  Patient(u)'
<1>0. /\ requests[u] # <<>> /\ requests'[u] = Tail(requests[u])
      /\ m \in Answers /\ answers'[u] = Append(answers[u], m)
      /\ UNCHANGED <<m_strCurPath, list>>
  BY RepliedIs
<1>1. \A q \in Homes(u) : IsDir(q) => IsDir(q)'
  BY GrowsKeepsDirs
<1>2. PICK c \in Homes(u), L \in Shown : c = m_strCurPath[u] /\ L = list[u]
  BY QueuesTyped
<1>3. (IsDir(c) => IsDir(c)') /\ (ListsDirs(L, c) => ListsDirs(L, c)')
  BY <1>1, <1>2, DirsStay
<1>4. Stands(u)'
  <2>1. IsDir(m_strCurPath[u]) => IsDir(m_strCurPath[u])'
    BY <1>0, <1>2, <1>3 DEF IsDir
  <2> QED BY <1>0, <2>1, StandsStill DEF Patient
<1>5. ListsDirs(list[u], m_strCurPath[u]) => ListsDirs(list[u], m_strCurPath[u])'
  BY <1>0, <1>2, <1>3 DEF ListsDirs
<1> QED BY <1>0, <1>1, <1>4, <1>5, PatientServed

\* What entryInfoList says is right.
LEMMA EntriesAreDirs == ASSUME NEW c PROVE ListsDirs(Entries(c), c)
<1>1. ASSUME NEW e \in Entries(c), e[2] PROVE IsDir(Append(c, e[1]))
  <2>1. PICK n \in Names : e = <<n, IsDir(Append(c, n))>>
    BY DEF Entries
  <2>2. e[1] = n /\ (e[2] <=> IsDir(Append(c, n)))
    BY <2>1
  <2> QED BY <1>1, <2>2
<1> QED BY <1>1 DEF ListsDirs

\* A patient user who is answered a list stays patient.
LEMMA PatientFlush ==
    ASSUME FilesInv, NEW u \in Users, Patient(u), FlushFile(u)
    PROVE  Patient(u)'
<1>1. /\ FilesInv' /\ fs' = fs /\ IsDir(Arg(u, 1)) /\ Head(requests[u])[1] = "flushFile"
      /\ Replied(u, <<"flushFile", Entries(Arg(u, 1))>>)
  BY FlushStep
<1>m. PICK m : m = <<"flushFile", Entries(Arg(u, 1))>>
  OBVIOUS
<1>2. /\ requests[u] # <<>> /\ requests'[u] = Tail(requests[u])
      /\ m \in Answers /\ answers'[u] = Append(answers[u], m)
      /\ UNCHANGED <<m_strCurPath, list>>
  BY <1>1, <1>m, RepliedIs
<1>3. Arg(u, 1) = m_strCurPath[u]
  BY <1>1, <1>2, FewerRequests DEF Patient, AsksHere, Arg
<1>4. m[1] = "flushFile" /\ m[2] = Entries(m_strCurPath[u])
  BY <1>m, <1>3
<1>5. \A q \in Homes(u) : IsDir(q) => IsDir(q)'
  BY <1>1 DEF IsDir, Exists
<1>6. Stands(u)'
  BY <1>1, <1>2, <1>3 DEF Stands, IsDir, Exists
<1>7. ListsDirs(m[2], m_strCurPath[u])'
  <2>1. PICK L, c : L = m[2] /\ c = m_strCurPath[u] /\ L = Entries(c)
    BY <1>4
  <2>2. ListsDirs(L, c)
    BY <2>1, EntriesAreDirs
  <2>3. \A q : IsDir(q) => IsDir(q)'
    BY <1>1 DEF IsDir, Exists
  <2>4. ListsDirs(L, c)'
    BY <2>2, <2>3 DEF ListsDirs
  <2> QED BY <1>2, <2>1, <2>4 DEF ListsDirs
<1> QED BY <1>1, <1>2, <1>4, <1>5, <1>6, <1>7, PatientServed

\* What u asks to be removed or moved is not the directory u is in, nor above
\* it.
LEMMA HereSurvives ==
    ASSUME NEW u \in Users, NEW c \in Homes(u), NEW p \in Items(u), p = Append(c, Last(p))
    PROVE  /\ ~IsPrefix(p, c)
           /\ \A n \in Names : IsPrefix(p, Append(c, n)) => Append(c, n) = p
<1>1. Len(p) = Len(c) + 1 /\ p \in Seq(Elements) /\ c \in Seq(Elements)
  BY ItemIs, HomeIs, AppendIs
<1>2. ~IsPrefix(p, c)
  BY <1>1, PrefixIs
<1>3. ASSUME NEW n \in Names, IsPrefix(p, Append(c, n)) PROVE Append(c, n) = p
  <2>1. PICK a \in Items(u) : a = Append(c, n) /\ Front(a) = c
    BY AppendIs
  <2>2. a \in Seq(Elements) /\ Len(a) >= 1
    BY ItemIs, HomeIs
  <2>3. IsPrefix(p, a) => p = a \/ IsPrefix(p, Front(a))
    BY <1>1, <2>2, PrefixOfFront
  <2> QED BY <1>2, <1>3, <2>1, <2>3
<1> QED BY <1>2, <1>3

\* The directory that u is in is not removed by what u asked for.
LEMMA PatientDelDir ==
    ASSUME FilesInv, NEW u \in Users, Patient(u), DelDir(u)
    PROVE  Patient(u)'
<1>1. PICK p \in Items(u), ok \in BOOLEAN :
        /\ p = Arg(u, 1) /\ FilesInv' /\ Head(requests[u])[1] = "delDir"
        /\ Replied(u, <<"delDir", ok>>) /\ Removes(p, ok)
  BY DelDirStep
<1>m. PICK m : m = <<"delDir", ok>>
  OBVIOUS
<1>2. /\ requests[u] # <<>> /\ requests'[u] = Tail(requests[u])
      /\ m \in Answers /\ answers'[u] = Append(answers[u], m)
      /\ UNCHANGED <<m_strCurPath, list>>
  BY <1>1, <1>m, RepliedIs
<1>3. PICK c \in Homes(u), L \in Shown : c = m_strCurPath[u] /\ L = list[u]
  BY QueuesTyped
<1>4. ~FlushAnswered(u) /\ p = Append(c, Last(p))
  <2>1. Head(requests[u]) = requests[u][1] /\ 1 \in 1..Len(requests[u])
    BY <1>2, FewerRequests
  <2>2. Destroys(requests[u][1])
    BY <1>1, <2>1 DEF Destroys
  <2>3. ~FlushAnswered(u) /\ Leaves(requests[u][1], c)
    BY <1>3, <2>1, <2>2 DEF Patient, DestroysAlone
  <2> QED BY <1>1, <2>1, <2>3 DEF Leaves, Arg
<1>5. ~IsPrefix(p, c) /\ \A n \in Names : IsPrefix(p, Append(c, n)) => Append(c, n) = p
  BY <1>4, HereSurvives
<1>6. Stands(u)'
  <2>1. IsDir(c) => IsDir(c)'
    BY <1>1, <1>5 DEF Removes, IsDir, Exists
  <2>2. IsDir(m_strCurPath[u]) => IsDir(m_strCurPath[u])'
    BY <1>2, <1>3, <2>1 DEF IsDir
  <2> QED BY <1>2, <2>2, StandsStill DEF Patient
<1>7. CASE ok
  <2>1. Done(m) /\ m[1] # "flushFile"
    BY <1>m, <1>7 DEF Done, Outcomes
  <2> QED BY <1>1, <1>2, <1>4, <1>6, <2>1, PatientServed
<1>8. CASE ~ok
  <2>1. ASSUME ListsDirs(L, c) PROVE ListsDirs(L, c)'
    <3> SUFFICES ASSUME NEW e \in L, e[2] PROVE IsDir(Append(c, e[1]))'
      BY DEF ListsDirs
    <3>1. e[1] \in Names /\ IsDir(Append(c, e[1]))
      BY <2>1 DEF ListsDirs, Shown
    <3> QED BY <1>1, <1>5, <1>8, <3>1 DEF Removes, IsDir, Exists
  <2>2. ListsDirs(list[u], m_strCurPath[u]) => ListsDirs(list[u], m_strCurPath[u])'
    BY <1>2, <1>3, <2>1 DEF ListsDirs
  <2>3. m[1] # "flushFile"
    BY <1>m
  <2> QED BY <1>1, <1>2, <1>4, <1>6, <2>2, <2>3, PatientServed
<1> QED BY <1>7, <1>8

\* The directory that u is in is not moved by what u asked for.
LEMMA PatientRename ==
    ASSUME FilesInv, NEW u \in Users, Patient(u), RenameFile(u)
    PROVE  Patient(u)'
<1>1. PICK old \in Items(u), new \in AnyHome, op \in {"renameFile", "mvFile"}, ok \in BOOLEAN :
        /\ old = Arg(u, 1) /\ new = Arg(u, 2) /\ FilesInv' /\ Head(requests[u])[1] = op
        /\ Replied(u, <<op, ok>>)
        /\ ok => CanRename(old, new) /\ fs' = Moved(old, new)
        /\ ~ok => fs' = fs
  BY RenameStep
<1>m. PICK m : m = <<op, ok>>
  OBVIOUS
<1>2. /\ requests[u] # <<>> /\ requests'[u] = Tail(requests[u])
      /\ m \in Answers /\ answers'[u] = Append(answers[u], m)
      /\ UNCHANGED <<m_strCurPath, list>>
  BY <1>1, <1>m, RepliedIs
<1>3. PICK c \in Homes(u), L \in Shown : c = m_strCurPath[u] /\ L = list[u]
  BY QueuesTyped
<1>4. ~FlushAnswered(u) /\ (CanRename(old, new) => ~IsPrefix(old, c))
  <2>1. Head(requests[u]) = requests[u][1] /\ 1 \in 1..Len(requests[u])
    BY <1>2, FewerRequests
  <2>2. Destroys(requests[u][1])
    BY <1>1, <2>1 DEF Destroys
  <2>3. ~FlushAnswered(u) /\ Leaves(requests[u][1], c)
    BY <1>3, <2>1, <2>2 DEF Patient, DestroysAlone
  <2>4. CASE op = "renameFile"
    <3>1. old = Append(c, Last(old))
      BY <1>1, <2>1, <2>3, <2>4 DEF Leaves, Arg
    <3> QED BY <2>3, <3>1, HereSurvives
  <2>5. CASE op = "mvFile"
    <3>1. IsPrefix(old, c) => IsPrefix(old, new)
      BY <1>1, <2>1, <2>3, <2>5 DEF Leaves, Arg
    <3> QED BY <2>3, <3>1 DEF CanRename
  <2> QED BY <2>4, <2>5
<1>0. m[1] # "flushFile"
  BY <1>m
<1>5. CASE ok
  <2>1. Done(m)
    BY <1>m, <1>5 DEF Done, Outcomes
  <2>2. ASSUME IsDir(c) PROVE IsDir(c)'
    <3>1. CanRename(old, new) /\ fs' = Moved(old, new) /\ IsTree(fs)
      BY <1>1, <1>5 DEF FilesInv
    <3>2. PICK w, n : w \in Users /\ n \in Homes(w) /\ n = new
      BY DEF AnyHome
    <3>3. /\ DOMAIN Moved(old, new) =
                (DOMAIN fs \ Under(old)) \cup {Goes(old, new, q) : q \in Under(old)}
          /\ \A q \in DOMAIN fs \ Under(old) : Moved(old, new)[q] = fs[q]
          /\ \A q \in Under(old) : Moved(old, new)[Goes(old, new, q)] = fs[q]
      <4>1. IsTree(fs) /\ CanRename(old, new) /\ u \in Users /\ w \in Users
        BY <3>1, <3>2
      <4>2. old \in Items(u) /\ new \in Homes(w)
        BY <3>2
      <4> QED BY <4>1, <4>2, MovedIs
    <3>4. c \in DOMAIN fs \ Under(old) /\ fs[c] = Dir
      BY <1>4, <2>2, <3>1 DEF IsDir, Exists, Under
    <3> QED BY <3>1, <3>3, <3>4 DEF IsDir, Exists
  <2>3. IsDir(m_strCurPath[u]) => IsDir(m_strCurPath[u])'
    BY <1>2, <1>3, <2>2 DEF IsDir
  <2>4. Stands(u)'
    BY <1>2, <2>3, StandsStill DEF Patient
  <2> QED BY <1>0, <1>1, <1>2, <1>4, <2>1, <2>4, PatientServed
<1>6. CASE ~ok
  <2>1. fs' = fs
    BY <1>1, <1>6
  <2>2. Grows
    BY <2>1 DEF Grows
  <2>3. Head(requests[u])[1] # "flushFile"
    BY <1>1
  <2> QED BY <1>0, <1>1, <1>m, <2>2, <2>3, PatientGrows
<1> QED BY <1>5, <1>6

\* Sharing leaves a patient user as it was.
LEMMA PatientShare ==
    ASSUME FilesInv, NEW u \in Users, Patient(u), ShareFile(u)
    PROVE  Patient(u)'
<1>m. PICK m \in Answers : m = <<"shareFile", TRUE>>
  BY AnswersAre
<1>1. /\ FilesInv' /\ fs' = fs /\ UNCHANGED <<m_strCurPath, list>>
      /\ requests[u] # <<>> /\ requests'[u] = Tail(requests[u])
      /\ Head(requests[u])[1] = "shareFile" /\ answers'[u] = Append(answers[u], m)
  BY <1>m, ShareStep DEF windowVars
<1>2. \A q \in Homes(u) : IsDir(q) => IsDir(q)'
  BY <1>1 DEF IsDir, Exists
<1>3. /\ Stands(u)'
      /\ ListsDirs(list[u], m_strCurPath[u]) => ListsDirs(list[u], m_strCurPath[u])'
  BY <1>1 DEF Patient, Stands, IsDir, Exists, ListsDirs
<1>4. m[1] # "flushFile"
  BY <1>m
<1> QED BY <1>1, <1>2, <1>3, <1>4, PatientServed

\* Whatever the server does for a patient user, the user stays patient.
LEMMA PatientServe ==
    ASSUME FilesInv, NEW u \in Users, Patient(u), Serve(u), ~FlushNothing(u)
    PROVE  Patient(u)'
<1>1. CASE Mkdir(u)
  <2>1. PICK ok \in BOOLEAN : FilesInv' /\ Grows /\ Replied(u, <<"mkdir", ok>>)
    BY <1>1, MkdirStep
  <2>2. Head(requests[u])[1] # "flushFile" /\ <<"mkdir", ok>>[1] # "flushFile"
    BY <1>1, MkdirStep
  <2> QED BY <2>1, <2>2, PatientGrows
<1>2. CASE ShareFileAgree(u)
  <2>1. PICK m : FilesInv' /\ Grows /\ Replied(u, m) /\ m[1] = "agree"
                    /\ Head(requests[u])[1] = "agree"
    BY <1>2, AgreeStep
  <2>2. Head(requests[u])[1] # "flushFile" /\ m[1] # "flushFile"
    BY <2>1
  <2> QED BY <2>1, <2>2, PatientGrows
<1> QED BY <1>1, <1>2, PatientFlush, PatientDelDir, PatientRename, PatientShare DEF Serve

\* u has taken an answer: a new list, or one that does not change the list.
LEMMA PatientListens ==
    ASSUME FilesInv, NEW u \in Users, Patient(u), Listens(u),
           \/ requests'[u] = requests[u]
           \/ \E m \in Requests(u) :
                /\ requests'[u] = Append(requests[u], m) /\ ~Destroys(m)
                /\ m[1] = "flushFile" => m[2] = m_strCurPath[u],
           \/ ListsDirs(list[u], m_strCurPath[u])'
           \/ FlushAsked(u)'
           \/ /\ Head(answers[u])[1] # "flushFile" /\ ~Done(Head(answers[u]))
              /\ list'[u] = list[u]
    PROVE  Patient(u)'
<1>0. /\ answers[u] # <<>> /\ answers'[u] = Tail(answers[u])
      /\ UNCHANGED <<fs, m_strCurPath>>
  BY DEF Listens, serverVars
<1>1. /\ Head(answers[u]) = answers[u][1] /\ 1 \in 1..Len(answers[u])
      /\ \A i \in 1..Len(answers'[u]) :
           i + 1 \in 2..Len(answers[u]) /\ answers'[u][i] = answers[u][i + 1]
      /\ \A i \in 2..Len(answers[u]) :
           i - 1 \in 1..Len(answers'[u]) /\ answers'[u][i - 1] = answers[u][i]
  BY <1>0, FewerAnswers
<1>2. \A i \in 1..Len(answers'[u]) :
        \E j \in 1..Len(answers[u]) : answers'[u][i] = answers[u][j]
  <2>1. \A i \in 2..Len(answers[u]) : i \in 1..Len(answers[u])
    BY QueuesTyped
  <2> QED BY <1>1, <2>1
<1>3. /\ \A i \in 1..Len(requests[u]) :
           i \in 1..Len(requests'[u]) /\ requests'[u][i] = requests[u][i]
      /\ \A i \in 1..Len(requests'[u]) :
           \/ i \in 1..Len(requests[u]) /\ requests'[u][i] = requests[u][i]
           \/ /\ ~Destroys(requests'[u][i])
              /\ requests'[u][i][1] = "flushFile" => requests'[u][i][2] = m_strCurPath[u]
  <2>1. CASE requests'[u] = requests[u]
    BY <2>1
  <2>2. CASE requests'[u] # requests[u]
    <3>1. PICK m \in Requests(u) :
            /\ requests'[u] = Append(requests[u], m) /\ ~Destroys(m)
            /\ m[1] = "flushFile" => m[2] = m_strCurPath[u]
      BY <2>2
    <3> QED BY <3>1, MoreRequests
  <2> QED BY <2>1, <2>2
<1>4. Stands(u)'
  BY <1>0 DEF Patient, Stands, IsDir, Exists
<1>5. AsksHere(u)'
  BY <1>0, <1>3 DEF Patient, AsksHere
<1>6. FlushAnswered(u)' => FlushAnswered(u)
  BY <1>2 DEF FlushAnswered
<1>7. DestroysAlone(u)'
  BY <1>0, <1>3, <1>6 DEF Patient, DestroysAlone
<1>8. AnswersDirs(u)'
  <2> SUFFICES ASSUME NEW i \in 1..Len(answers'[u]), answers'[u][i][1] = "flushFile"
               PROVE  ListsDirs(answers[u][i][2], m_strCurPath[u])'
    BY DEF AnswersDirs
  <2>1. PICK j \in 1..Len(answers[u]) : answers'[u][i] = answers[u][j]
    BY <1>2
  <2>2. PICK L, c : L = answers[u][j][2] /\ c = m_strCurPath[u]
    OBVIOUS
  <2>3. ListsDirs(L, c)
    BY <2>1, <2>2 DEF Patient, AnswersDirs
  <2>4. ListsDirs(L, c)'
    BY <1>0, <2>3 DEF ListsDirs, IsDir, Exists
  <2> QED BY <1>0, <2>1, <2>2, <2>4 DEF ListsDirs
<1>9. (ListsDirs(list[u], m_strCurPath[u]) \/ ListIsDue(u))'
  <2>1. CASE /\ Head(answers[u])[1] # "flushFile" /\ ~Done(Head(answers[u]))
             /\ list'[u] = list[u]
    <3>1. \A i \in 1..Len(answers[u]) : i = 1 \/ i \in 2..Len(answers[u])
      BY QueuesTyped
    <3>2. ASSUME FlushAnswered(u) PROVE FlushAnswered(u)'
      <4>1. PICK i \in 1..Len(answers[u]) : answers[u][i][1] = "flushFile"
        BY <3>2 DEF FlushAnswered
      <4>2. i - 1 \in 1..Len(answers'[u]) /\ answers'[u][i - 1] = answers[u][i]
        BY <1>1, <2>1, <3>1, <4>1
      <4> QED BY <4>1, <4>2 DEF FlushAnswered
    <3>3. ASSUME DoneAnswered(u) PROVE DoneAnswered(u)'
      <4>1. PICK i \in 1..Len(answers[u]) : Done(answers[u][i])
        BY <3>3 DEF DoneAnswered
      <4>2. i - 1 \in 1..Len(answers'[u]) /\ answers'[u][i - 1] = answers[u][i]
        BY <1>1, <2>1, <3>1, <4>1
      <4> QED BY <4>1, <4>2 DEF DoneAnswered
    <3>4. FlushAsked(u) => FlushAsked(u)'
      BY <1>3 DEF FlushAsked
    <3>5. ListsDirs(list[u], m_strCurPath[u]) => ListsDirs(list[u], m_strCurPath[u])'
      BY <1>0, <2>1 DEF ListsDirs, IsDir, Exists
    <3> QED BY <3>2, <3>3, <3>4, <3>5 DEF Patient, ListIsDue
  <2> QED BY <2>1 DEF ListIsDue
<1> QED BY <1>4, <1>5, <1>7, <1>8, <1>9 DEF Patient

\* Whatever a patient user is answered, the user stays patient.
LEMMA PatientHears ==
    ASSUME FilesInv, NEW u \in Users, Patient(u), Hear(u)
    PROVE  Patient(u)'
<1>1. CASE UpdateFileList(u)
  <2>1. /\ Listens(u) /\ Head(answers[u])[1] = "flushFile"
        /\ requests'[u] = requests[u] /\ list'[u] = Answer(u)
    BY <1>1, UpdateStep
  <2>2. UNCHANGED <<fs, m_strCurPath>> /\ Head(answers[u]) = answers[u][1]
        /\ 1 \in 1..Len(answers[u])
    BY <2>1, FewerAnswers DEF Listens, serverVars
  <2>3. PICK L, c : L = Answer(u) /\ c = m_strCurPath[u]
    OBVIOUS
  <2>4. ListsDirs(L, c)
    BY <2>1, <2>2, <2>3 DEF Patient, AnswersDirs, Answer
  <2>5. ListsDirs(L, c)'
    BY <2>2, <2>4 DEF ListsDirs, IsDir, Exists
  <2>6. ListsDirs(list[u], m_strCurPath[u])'
    BY <2>1, <2>2, <2>3, <2>5 DEF ListsDirs
  <2> QED BY <2>1, <2>6, PatientListens
<1>2. CASE Refresh(u)
  <2>1. /\ Listens(u) /\ UNCHANGED list
        /\ Head(answers[u])[1] \in Outcomes /\ Answer(u) \in BOOLEAN
        /\ IF Answer(u)
           THEN requests'[u] = Append(requests[u], <<"flushFile", m_strCurPath[u]>>)
           ELSE requests'[u] = requests[u]
    BY <1>2, RefreshStep
  <2>2. CASE Answer(u)
    <3>1. PICK m \in Requests(u) : m = <<"flushFile", m_strCurPath[u]>>
      BY QueuesTyped, RequestsAre
    <3>2. requests'[u] = Append(requests[u], m)
      BY <2>1, <2>2, <3>1
    <3>3. m[1] = "flushFile" /\ m[2] = m_strCurPath[u] /\ ~Destroys(m)
      BY <3>1 DEF Destroys
    <3>4. FlushAsked(u)'
      BY <3>2, <3>3, MoreRequests DEF FlushAsked
    <3> QED BY <2>1, <3>2, <3>3, <3>4, PatientListens
  <2>3. CASE ~Answer(u)
    <3>1. ~Done(Head(answers[u]))
      BY <2>3 DEF Done, Answer
    <3>2. Head(answers[u])[1] # "flushFile"
      BY <2>1 DEF Outcomes
    <3> QED BY <2>1, <2>3, <3>1, <3>2, PatientListens
  <2> QED BY <2>2, <2>3
<1>3. CASE ShowShared(u) \/ ShareFileResend(u)
  <2>1. /\ Listens(u) /\ UNCHANGED list
        /\ Head(answers[u])[1] \in {"shareFile", "resend"}
        /\ \/ requests'[u] = requests[u]
           \/ \E p \in AnyItem : requests'[u] = Append(requests[u], <<"agree", p>>)
    BY <1>3, SharedStep
  <2>2. ~Done(Head(answers[u])) /\ Head(answers[u])[1] # "flushFile"
    BY <2>1 DEF Done, Outcomes
  <2>3. \/ requests'[u] = requests[u]
        \/ \E m \in Requests(u) :
             /\ requests'[u] = Append(requests[u], m) /\ ~Destroys(m)
             /\ m[1] = "flushFile" => m[2] = m_strCurPath[u]
    <3>1. ASSUME NEW p \in AnyItem, requests'[u] = Append(requests[u], <<"agree", p>>)
          PROVE  \E m \in Requests(u) :
                   /\ requests'[u] = Append(requests[u], m) /\ ~Destroys(m)
                   /\ m[1] = "flushFile" => m[2] = m_strCurPath[u]
      <4>1. PICK m \in Requests(u) : m = <<"agree", p>>
        BY RequestsAre
      <4>2. m[1] = "agree"
        BY <4>1
      <4> QED BY <3>1, <4>1, <4>2 DEF Destroys
    <3> QED BY <2>1, <3>1
  <2> QED BY <2>1, <2>2, <2>3, PatientListens
<1> QED BY <1>1, <1>2, <1>3 DEF Hear

\* What is below u's own directory is as it was.
Kept(u) ==
    \A q \in Homes(u) :
        (q \in DOMAIN fs' <=> q \in DOMAIN fs) /\ (q \in DOMAIN fs => fs'[q] = fs[q])

\* Then directories are directories as before.
LEMMA KeptDirs ==
    ASSUME NEW u, Kept(u)
    PROVE  \A q \in Homes(u) : (IsDir(q) <=> IsDir(q)') /\ (Exists(q) <=> Exists(q)')
BY DEF Kept, IsDir, Exists

\* It is still there, and if there is more, somebody else has made that.
Stays(u) == \A q \in Homes(u) : q \in DOMAIN fs => q \in DOMAIN fs' /\ fs'[q] = fs[q]
Spared(u) == Stays(u) /\ (Kept(u) \/ Visited(u))

\* Then directories are directories as before.
LEMMA StaysDirs == ASSUME NEW u, Stays(u) PROVE \A q \in Homes(u) : IsDir(q) => IsDir(q)'
BY DEF Stays, IsDir, Exists

\* A directory where nothing changed has lost nothing.
LEMMA KeptStays == ASSUME NEW u, Kept(u) PROVE Stays(u) /\ Spared(u)
BY DEF Kept, Stays, Spared

\* What others do.
LEMMA OthersAct ==
    ASSUME FilesInv, NEW u \in Users, NEW v \in Users \ {u}, Act(v)
    PROVE  Left(u) /\ fs' = fs /\ undefined' = undefined
<1>1. CASE \E p : Enters(v, p)
  <2>1. PICK p : p \in Homes(v) /\ Enter(v, p) /\ Click(v, FlushOf(p))
    BY <1>1 DEF Enters, Enter
  <2>2. PICK m \in Requests(v) : m = FlushOf(p)
    BY <2>1, RequestsAre DEF FlushOf
  <2>3. UNCHANGED <<answers, fs, undefined>> /\ requests'[u] = requests[u]
    BY <2>1, <2>2, ClickTypes
  <2>4. UNCHANGED list /\ m_strCurPath'[u] = m_strCurPath[u]
    BY <2>1, EnterWindows DEF FilesInv
  <2> QED BY <2>3, <2>4 DEF Left, Told
<1>2. CASE \E m : Asks(v, m)
  <2>1. PICK m : m \in Requests(v) /\ Click(v, m) /\ UNCHANGED <<m_strCurPath, list>>
    BY <1>2 DEF Asks
  <2>2. UNCHANGED <<answers, fs, undefined>> /\ requests'[u] = requests[u]
    BY <2>1, ClickTypes
  <2> QED BY <2>1, <2>2 DEF Left, Told
<1>3. CASE Notes(v)
  BY <1>3 DEF Notes, Left, Told, serverVars, messageVars
<1> QED BY <1>1, <1>2, <1>3, ActIs

\* What the server and the client do for others.
LEMMA OthersReplied ==
    ASSUME NEW u \in Users, NEW v \in Users \ {u}, NEW m, Replied(v, m)
    PROVE  Left(u) /\ undefined' = undefined
BY DEF Replied, Left, Told, windowVars

\* What the server does for v takes nothing of u's away, and adds to it only
\* when u counts as unaware.
LEMMA OthersSpare ==
    ASSUME NEW u \in Users, NEW v \in Users \ {u}, NEW op \in Changing,
           Asked(v, op), NEW m, Replied(v, m), OthersKeep(v)
    PROVE  Spared(u)
<1>1. Stays(u)
  BY DEF OthersKeep, Stays
<1>2. ASSUME ~Kept(u) PROVE Visited(u)
  <2>1. PICK q \in Homes(u) : q \in DOMAIN fs' \ DOMAIN fs
    BY <1>1, <1>2 DEF Kept, Stays
  <2>2. q[1] = u
    BY DEF Homes
  <2>3. Served(v, op)
    BY DEF Served, Replied
  <2> QED BY <2>1, <2>2, <2>3 DEF Visited
<1> QED BY <1>1, <1>2 DEF Spared

\* Serving v leaves what is u's as it was, but for one more answer.
LEMMA OthersServed ==
    ASSUME FilesInv, NEW u \in Users, NEW v \in Users \ {u}, Serve(v)
    PROVE  Left(u) /\ Spared(u) /\ undefined'[u] = undefined[u]
<1>1. CASE Mkdir(v) \/ DelDir(v) \/ RenameFile(v) \/ ShareFileAgree(v)
  <2>1. OthersKeep(v) /\ \E m : Replied(v, m)
    BY <1>1, MkdirStep, DelDirStep, RenameStep, AgreeStep, GrownIsKept
  <2>2. \E op \in Changing : Asked(v, op)
    BY <1>1 DEF Mkdir, DelDir, RenameFile, ShareFileAgree, Changing
  <2> QED BY <2>1, <2>2, OthersReplied, OthersSpare
<1>2. CASE FlushFile(v)
  <2>1. fs' = fs /\ \E m : Replied(v, m)
    BY <1>2, FlushStep
  <2>2. Kept(u)
    BY <2>1 DEF Kept
  <2> QED BY <2>1, <2>2, OthersReplied, KeptStays
<1>3. CASE FlushNothing(v)
  <2>1. /\ fs' = fs /\ UNCHANGED <<answers, windowVars>>
        /\ requests'[u] = requests[u] /\ undefined'[u] = undefined[u]
    BY <1>3, NothingStep
  <2>2. Kept(u)
    BY <2>1 DEF Kept
  <2> QED BY <2>1, <2>2, KeptStays DEF Left, Told, windowVars
<1>4. CASE ShareFile(v)
  <2>1. /\ fs' = fs /\ UNCHANGED <<windowVars, undefined>>
        /\ requests'[u] = requests[u] /\ Told(u)
    BY <1>4, ShareStep
  <2>2. Kept(u)
    BY <2>1 DEF Kept
  <2> QED BY <2>1, <2>2, KeptStays DEF Left, windowVars
<1> QED BY <1>1, <1>2, <1>3, <1>4 DEF Serve

\* What v hears leaves what is u's as it was.
LEMMA OthersHear ==
    ASSUME FilesInv, NEW u \in Users, NEW v \in Users \ {u}, Hear(v)
    PROVE  Left(u) /\ fs' = fs /\ undefined' = undefined
<1>1. Listens(v) /\ list'[u] = list[u]
  BY UpdateStep, RefreshStep, SharedStep DEF Hear
<1> QED BY <1>1 DEF Listens, Left, Told, serverVars

\* A step, for one user u.
LEMMA StepOf ==
    ASSUME FilesInv, [FilesNext]_filesVars, NEW u \in Users
    PROVE  \/ u \in Acting /\ Act(u)
           \/ Serve(u)
           \/ Hear(u)
           \/ Left(u) /\ Spared(u) /\ undefined'[u] = undefined[u]
<1>0. fs' = fs => Spared(u)
  BY KeptStays DEF Kept
<1>1. CASE UNCHANGED filesVars
  BY <1>0, <1>1 DEF filesVars, serverVars, windowVars, messageVars, Left, Told
<1>2. ASSUME NEW v \in Acting, Act(v), v # u
      PROVE  Left(u) /\ Spared(u) /\ undefined'[u] = undefined[u]
  <2>1. v \in Users \ {u}
    BY <1>2, FilesAssumption
  <2> QED BY <1>0, <1>2, <2>1, OthersAct
<1>3. ASSUME NEW v \in Users, Serve(v), v # u
      PROVE  Left(u) /\ Spared(u) /\ undefined'[u] = undefined[u]
  BY <1>3, OthersServed
<1>4. ASSUME NEW v \in Users, Hear(v), v # u
      PROVE  Left(u) /\ Spared(u) /\ undefined'[u] = undefined[u]
  BY <1>0, <1>4, OthersHear
<1> QED BY <1>1, <1>2, <1>3, <1>4 DEF FilesNext

\* A user that clicks while something is under way is hasty.
LEMMA ClickIsHasty ==
    ASSUME FilesInv, Observe, NEW u \in Acting, u \notin hasty',
           NEW m \in Requests(u), Click(u, m)
    PROVE  Pending(u) = 0
<1>1. u \in Users /\ acts' # acts /\ requests'[u] # requests[u]
  BY FilesAssumption, ClickTypes
<1>2. ~(Pending(u) > 0)
  BY <1>1 DEF Observe, Clicked
<1>3. requests[u] \in Seq(Requests(u)) /\ answers[u] \in Seq(Answers)
  BY <1>1, QueuesTyped
<1>4. Len(requests[u]) \in Nat /\ Len(answers[u]) \in Nat
  BY <1>3
<1>5. \A a, b \in Nat : ~(a + b > 0) => a + b = 0
  OBVIOUS
<1> QED BY <1>2, <1>4, <1>5, Zenon DEF Pending

\* A user that is not hasty stays patient, and has nothing undefined.
LEMMA PatientStep ==
    ASSUME FilesInv, [FilesNext]_filesVars, Observe, NEW u \in Users,
           u \in hasty \/ Patient(u), u \notin hasty'
    PROVE  \/ Patient(u)' /\ undefined'[u] = undefined[u]
           \/ FlushNothing(u) /\ ~IsDir(<<u>>)'
<1>0. Patient(u)
  BY DEF Observe
<1>1. CASE u \in Acting /\ Act(u)
  <2>1. CASE \E p : Enters(u, p)
    <3>1. PICK p : Enters(u, p)
      BY <2>1
    <3>2. PICK m \in Requests(u) : Click(u, m)
      BY <3>1, RequestsAre DEF Enters, Enter, FlushOf
    <3> QED BY <1>0, <1>1, <3>1, <3>2, ClickIsHasty, PatientEnters, ClickTypes
  <2>2. CASE \E m : Asks(u, m)
    <3>1. PICK m : Asks(u, m) /\ m \in Requests(u) /\ Click(u, m)
      BY <2>2 DEF Asks
    <3> QED BY <1>0, <1>1, <3>1, ClickIsHasty, PatientAsks, ClickTypes
  <2>3. CASE Notes(u)
    <3>1. Left(u) /\ fs' = fs /\ undefined' = undefined
      BY <2>3 DEF Notes, Left, Told, serverVars, messageVars
    <3>2. Stays(u)
      BY <3>1 DEF Stays
    <3> QED BY <1>0, <3>1, <3>2, StaysDirs, PatientLeft
  <2> QED BY <1>1, <2>1, <2>2, <2>3, ActIs
<1>2. CASE Serve(u)
  <2>1. CASE FlushNothing(u)
    <3>1. requests[u] # <<>> /\ Head(requests[u])[1] = "flushFile" /\ ~IsDir(Arg(u, 1))
          /\ requests'[u] = Tail(requests[u]) /\ fs' = fs
      BY <2>1, NothingStep
    <3>2. Arg(u, 1) = m_strCurPath[u]
      BY <1>0, <3>1, FewerRequests DEF Patient, AsksHere, Arg
    <3>3. ~IsDir(<<u>>)
      BY <1>0, <3>1, <3>2 DEF Patient, Stands
    <3> QED BY <2>1, <3>1, <3>3 DEF IsDir, Exists
  <2>2. CASE ~FlushNothing(u)
    <3>1. Patient(u)'
      BY <1>0, <1>2, <2>2, PatientServe
    <3>2. undefined' = undefined
      BY <1>2, <2>2, MkdirStep, FlushStep, DelDirStep, RenameStep, ShareStep, AgreeStep
      DEF Serve, Replied
    <3> QED BY <3>1, <3>2
  <2> QED BY <2>1, <2>2
<1>3. CASE Hear(u)
  <2>1. undefined' = undefined
    BY <1>3, UpdateStep, RefreshStep, SharedStep DEF Hear, Listens, serverVars
  <2> QED BY <1>0, <1>3, <2>1, PatientHears
<1>4. CASE Left(u) /\ Spared(u) /\ undefined'[u] = undefined[u]
  BY <1>0, <1>4, StaysDirs, PatientLeft DEF Spared
<1> QED BY <1>1, <1>2, <1>3, <1>4, StepOf

\* Nobody is hasty to begin with, and all are patient.
LEMMA PatientInit == FHInit => PatientInv /\ PatientUsersAreSafe
<1> SUFFICES ASSUME FHInit PROVE PatientInv /\ PatientUsersAreSafe
  OBVIOUS
<1>1. PatientUsersAreSafe
  BY DEF FHInit, FilesInit, PatientUsersAreSafe
<1>2. ASSUME NEW u \in Users PROVE Patient(u)
  <2>1. /\ requests[u] = <<>> \/ requests[u] = <<FlushOf(<<u>>)>>
        /\ answers[u] = <<>> /\ m_strCurPath[u] = <<u>> /\ list[u] = Entries(<<u>>)
    BY DEF FHInit, FilesInit
  <2>2. 1..Len(answers[u]) = {}
    BY <2>1
  <2>3. \A i \in 1..Len(requests[u]) : requests[u][i] = FlushOf(<<u>>)
    BY <2>1
  <2>4. AsksHere(u) /\ DestroysAlone(u) /\ AnswersDirs(u)
    BY <2>1, <2>2, <2>3 DEF AsksHere, DestroysAlone, AnswersDirs, Destroys, FlushOf
  <2>5. ListsDirs(list[u], m_strCurPath[u])
    BY <2>1, EntriesAreDirs
  <2> QED BY <2>1, <2>4, <2>5 DEF Patient, Stands
<1> QED BY <1>1, <1>2 DEF PatientInv

\* The history variables constrain no step, so the types hold.
LEMMA FHTypes == FHInit /\ [][FHNext]_fhVars => []FilesInv
<1>1. FHInit => FilesInv
  BY FilesInitInv DEF FHInit
<1>2. FilesInv /\ [FHNext]_fhVars => FilesInv'
  BY FilesNextInv DEF FHNext, fhVars
<1> QED BY <1>1, <1>2, PTL

\* Safety: the server's flushFile is undefined on a directory that does not
\* exist; a client whose user waits for the answers, and whose own directory
\* regist could make, never asks for such a list, whatever the others do,
\* whatever names they type and whatever the file system refuses.
THEOREM PatientsAreSafe == FHSpec => []PatientUsersAreSafe
<1>1. FHInit => PatientInv /\ PatientUsersAreSafe
  BY PatientInit
<1>2. FilesInv /\ PatientInv /\ PatientUsersAreSafe /\ [FHNext]_fhVars
        => (PatientInv /\ PatientUsersAreSafe)'
  <2> SUFFICES ASSUME FilesInv, PatientInv, PatientUsersAreSafe, [FHNext]_fhVars
               PROVE  (PatientInv /\ PatientUsersAreSafe)'
    OBVIOUS
  <2>1. [FilesNext]_filesVars
    BY DEF FHNext, fhVars
  <2>2. CASE FHNext
    <3>1. Observe
      BY <2>2 DEF FHNext
    <3>2. undefined' \in [Users -> BOOLEAN] /\ \A v \in Users : ~undefined[v]
      BY <2>1, <2>2, FilesNextInv DEF FilesInv, CountsOK, FHNext, FilesNext
    <3>3. ASSUME NEW u \in Users, u \notin hasty'
          PROVE  (Patient(u)' /\ ~undefined'[u]) \/ (undefined'[u] /\ ~IsDir(<<u>>)')
      <4>1. u \in hasty \/ Patient(u)
        BY <3>2 DEF PatientInv
      <4>0. ~undefined[u]
        BY <3>2
      <4>2. CASE Patient(u)' /\ undefined'[u] = undefined[u]
        BY <4>0, <4>2, Zenon
      <4>3. CASE FlushNothing(u) /\ ~IsDir(<<u>>)'
        BY <4>3 DEF FlushNothing, FilesInv, CountsOK
      <4> QED BY <2>1, <3>1, <3>3, <4>1, <4>2, <4>3, PatientStep
    <3>4. PatientUsersAreSafe'
      BY <3>3 DEF PatientUsersAreSafe
    <3>5. PatientInv'
      BY <3>3 DEF PatientInv
    <3> QED BY <3>4, <3>5
  <2>3. CASE UNCHANGED fhVars
    BY <2>3 DEF fhVars, filesVars, serverVars, windowVars, messageVars, PatientInv,
                PatientUsersAreSafe, Patient, Stands, IsDir, Exists, AsksHere,
                DestroysAlone, AnswersDirs,
                ListIsDue, FlushAsked, FlushAnswered, DoneAnswered, ListsDirs
  <2> QED BY <2>2, <2>3
<1> QED BY <1>1, <1>2, FHTypes, PTL DEF FHSpec

-----------------------------------------------------------------------------
(* What a user sees when nothing is under way is how it is.                *)

LastFlush(s, i) ==
    s[i][1] = "flushFile" /\ \A j \in 1..Len(s) : j > i => s[j][1] # "flushFile"

\* The last list that u asks for is that of the directory u is in.
LastAsked(u) ==
    \A i \in 1..Len(requests[u]) :
        LastFlush(requests[u], i) => requests[u][i][2] = m_strCurPath[u]

\* The last list that u has, or is about to have, is E.
ListedAs(u, E) ==
    \/ \E i \in 1..Len(answers[u]) : LastFlush(answers[u], i) /\ answers[u][i][2] = E
    \/ ~FlushAnswered(u) /\ list[u] = E

Listed(u) == ListedAs(u, Entries(m_strCurPath[u]))

WillList(u) == FlushAsked(u) \/ DoneAnswered(u) \/ Listed(u)

ShownFor(u) == LastAsked(u) /\ (u \notin unaware /\ ~undefined[u] => WillList(u))

ShownInv == \A u \in Users : ShownFor(u)

\* What is in a directory of u is as it was.
LEMMA EntriesKept ==
    ASSUME NEW u \in Users, Kept(u), NEW c \in Homes(u)
    PROVE  Entries(c)' = Entries(c)
<1>1. \A n \in Names : Append(c, n) \in Homes(u)
  BY AppendIs, ItemIs
<1>2. \A n \in Names :
        /\ Exists(Append(c, n))' <=> Exists(Append(c, n))
        /\ IsDir(Append(c, n))' <=> IsDir(Append(c, n))
  BY <1>1, KeptDirs
<1>3. /\ IsDir(Append(c, 1)) \in BOOLEAN
      /\ \A n : IsDir(Append(c, n)) \in BOOLEAN /\ IsDir(Append(c, n))' \in BOOLEAN
  BY DEF IsDir
<1>4. \A n \in Names : <<n, IsDir(Append(c, n))'>> = <<n, IsDir(Append(c, n))>>
  BY <1>2, <1>3
<1> QED BY <1>2, <1>4 DEF Entries

\* A request more, or one less.
LEMMA LastAskedMore ==
    ASSUME FilesInv, NEW u \in Users, NEW m \in Requests(u), LastAsked(u),
           requests'[u] = Append(requests[u], m),
           IF m[1] = "flushFile" THEN m[2] = m_strCurPath'[u]
           ELSE m_strCurPath'[u] = m_strCurPath[u]
    PROVE  /\ LastAsked(u)' /\ (FlushAsked(u) => FlushAsked(u)')
           /\ m[1] = "flushFile" => FlushAsked(u)'
<1>1. /\ Len(requests'[u]) = Len(requests[u]) + 1
      /\ requests'[u][Len(requests[u]) + 1] = m
      /\ \A i \in 1..Len(requests[u]) :
           i \in 1..Len(requests'[u]) /\ requests'[u][i] = requests[u][i]
      /\ \A i \in 1..Len(requests'[u]) : i \in 1..Len(requests[u]) \/ i = Len(requests[u]) + 1
      /\ Len(requests[u]) + 1 \in 1..Len(requests'[u])
  BY MoreRequests
<1>2. Len(requests[u]) \in Nat
  BY QueuesTyped
<1>3. LastAsked(u)'
  <2> SUFFICES ASSUME NEW i \in 1..Len(requests'[u]), LastFlush(requests[u], i)'
               PROVE  requests'[u][i][2] = m_strCurPath'[u]
    BY DEF LastAsked
  <2>1. CASE i = Len(requests[u]) + 1
    BY <1>1, <2>1 DEF LastFlush
  <2>2. CASE i \in 1..Len(requests[u])
    <3>1. Len(requests[u]) + 1 > i
      BY <1>2, <2>2
    <3>2. m[1] # "flushFile"
      BY <1>1, <3>1 DEF LastFlush
    <3>3. LastFlush(requests[u], i)
      BY <1>1, <2>2 DEF LastFlush
    <3> QED BY <1>1, <2>2, <3>2, <3>3 DEF LastAsked
  <2> QED BY <1>1, <2>1, <2>2
<1>4. (FlushAsked(u) => FlushAsked(u)') /\ (m[1] = "flushFile" => FlushAsked(u)')
  BY <1>1 DEF FlushAsked
<1> QED BY <1>3, <1>4

\* A request that has been taken.
LEMMA LastAskedLess ==
    ASSUME FilesInv, NEW u \in Users, LastAsked(u), requests[u] # <<>>,
           requests'[u] = Tail(requests[u]), m_strCurPath'[u] = m_strCurPath[u]
    PROVE  /\ LastAsked(u)'
           /\ Head(requests[u])[1] # "flushFile" => (FlushAsked(u) => FlushAsked(u)')
           /\ Head(requests[u])[1] = "flushFile" =>
                FlushAsked(u)' \/ Head(requests[u])[2] = m_strCurPath[u]
<1>1. /\ Head(requests[u]) = requests[u][1] /\ 1 \in 1..Len(requests[u])
      /\ \A i \in 1..Len(requests'[u]) :
           i + 1 \in 2..Len(requests[u]) /\ requests'[u][i] = requests[u][i + 1]
      /\ \A i \in 2..Len(requests[u]) :
           i - 1 \in 1..Len(requests'[u]) /\ requests'[u][i - 1] = requests[u][i]
  BY FewerRequests
<1>2. \A i \in 1..Len(requests[u]) : i = 1 \/ (i \in 2..Len(requests[u]) /\ i > 1)
  BY QueuesTyped
<1>3. LastAsked(u)'
  <2> SUFFICES ASSUME NEW i \in 1..Len(requests'[u]), LastFlush(requests[u], i)'
               PROVE  requests'[u][i][2] = m_strCurPath'[u]
    BY DEF LastAsked
  <2>1. i + 1 \in 1..Len(requests[u]) /\ requests'[u][i] = requests[u][i + 1]
    BY <1>1
  <2>2. LastFlush(requests[u], i + 1)
    <3> SUFFICES ASSUME NEW j \in 1..Len(requests[u]), j > i + 1
                 PROVE  requests[u][j][1] # "flushFile"
      BY <2>1 DEF LastFlush
    <3>1. j \in 2..Len(requests[u]) /\ j - 1 > i
      OBVIOUS
    <3>2. j - 1 \in 1..Len(requests'[u]) /\ requests'[u][j - 1] = requests[u][j]
      BY <1>1, <3>1
    <3>3. requests'[u][j - 1][1] # "flushFile"
      BY <3>1, <3>2 DEF LastFlush
    <3> QED BY <3>2, <3>3
  <2> QED BY <2>1, <2>2 DEF LastAsked
<1>4. Head(requests[u])[1] # "flushFile" => (FlushAsked(u) => FlushAsked(u)')
  BY <1>1, <1>2 DEF FlushAsked
<1>5. ASSUME Head(requests[u])[1] = "flushFile", ~FlushAsked(u)'
      PROVE  Head(requests[u])[2] = m_strCurPath[u]
  <2>1. LastFlush(requests[u], 1)
    BY <1>1, <1>2, <1>5 DEF FlushAsked, LastFlush
  <2> QED BY <1>1, <2>1 DEF LastAsked
<1> QED BY <1>3, <1>4, <1>5

\* An answer more, or one less.
LEMMA ListedMore ==
    ASSUME FilesInv, NEW u \in Users, NEW m \in Answers, answers'[u] = Append(answers[u], m),
           list'[u] = list[u], NEW E
    PROVE  /\ DoneAnswered(u) => DoneAnswered(u)'
           /\ Done(m) => DoneAnswered(u)'
           /\ m[1] # "flushFile" /\ ListedAs(u, E) => ListedAs(u, E)'
           /\ m[1] = "flushFile" /\ m[2] = E => ListedAs(u, E)'
<1>1. /\ Len(answers'[u]) = Len(answers[u]) + 1
      /\ answers'[u][Len(answers[u]) + 1] = m
      /\ \A i \in 1..Len(answers[u]) :
           i \in 1..Len(answers'[u]) /\ answers'[u][i] = answers[u][i]
      /\ \A i \in 1..Len(answers'[u]) : i \in 1..Len(answers[u]) \/ i = Len(answers[u]) + 1
      /\ Len(answers[u]) + 1 \in 1..Len(answers'[u])
  BY MoreAnswers
<1>2. Len(answers[u]) \in Nat
  BY QueuesTyped
<1>3. (DoneAnswered(u) => DoneAnswered(u)') /\ (Done(m) => DoneAnswered(u)')
  BY <1>1 DEF DoneAnswered
<1>4. ASSUME m[1] # "flushFile", ListedAs(u, E) PROVE ListedAs(u, E)'
  <2>1. ~FlushAnswered(u) => ~FlushAnswered(u)'
    BY <1>1, <1>4 DEF FlushAnswered
  <2>2. ASSUME NEW i \in 1..Len(answers[u]), LastFlush(answers[u], i)
        PROVE  i \in 1..Len(answers'[u]) /\ LastFlush(answers[u], i)'
                   /\ answers'[u][i] = answers[u][i]
    BY <1>1, <1>4, <2>2 DEF LastFlush
  <2> QED BY <1>4, <2>1, <2>2 DEF ListedAs
<1>5. ASSUME m[1] = "flushFile", m[2] = E PROVE ListedAs(u, E)'
  <2>1. PICK n \in Nat : n = Len(answers[u]) + 1
    BY <1>2
  <2>2. n \in 1..Len(answers'[u]) /\ answers'[u][n] = m
    BY <1>1, <2>1
  <2>3. \A j \in 1..Len(answers'[u]) : ~(j > n)
    BY <1>1, <1>2, <2>1
  <2>4. LastFlush(answers[u], n)'
    BY <1>5, <2>2, <2>3 DEF LastFlush
  <2> QED BY <1>5, <2>2, <2>4 DEF ListedAs
<1> QED BY <1>3, <1>4, <1>5

\* An answer that has been heard.
LEMMA ListedLess ==
    ASSUME FilesInv, NEW u \in Users, Listens(u), NEW E,
           IF Head(answers[u])[1] = "flushFile" THEN list'[u] = Head(answers[u])[2]
           ELSE list'[u] = list[u]
    PROVE  /\ ListedAs(u, E) => ListedAs(u, E)'
           /\ ~Done(Head(answers[u])) => (DoneAnswered(u) => DoneAnswered(u)')
<1>1. /\ Head(answers[u]) = answers[u][1] /\ 1 \in 1..Len(answers[u])
      /\ \A i \in 1..Len(answers'[u]) :
           i + 1 \in 2..Len(answers[u]) /\ answers'[u][i] = answers[u][i + 1]
      /\ \A i \in 2..Len(answers[u]) :
           i - 1 \in 1..Len(answers'[u]) /\ answers'[u][i - 1] = answers[u][i]
  BY FewerAnswers DEF Listens
<1>2. \A i \in 1..Len(answers[u]) : i = 1 \/ (i \in 2..Len(answers[u]) /\ i > 1)
  BY QueuesTyped
<1>3. \A i \in 1..Len(answers'[u]) : i + 1 \in 1..Len(answers[u]) /\ i + 1 > 1
  BY <1>1
<1>4. ~Done(Head(answers[u])) => (DoneAnswered(u) => DoneAnswered(u)')
  BY <1>1, <1>2 DEF DoneAnswered
<1>5. ASSUME FlushAnswered(u)' PROVE FlushAnswered(u)
  <2>1. PICK i \in 1..Len(answers'[u]) : answers'[u][i][1] = "flushFile"
    BY <1>5 DEF FlushAnswered
  <2>2. i + 1 \in 1..Len(answers[u]) /\ answers'[u][i] = answers[u][i + 1]
    BY <1>1, <1>3, <2>1
  <2> QED BY <2>1, <2>2 DEF FlushAnswered
<1>6. ASSUME NEW i \in 2..Len(answers[u]), LastFlush(answers[u], i),
             answers[u][i][2] = E
      PROVE  ListedAs(u, E)'
  <2>1. PICK k \in 1..Len(answers'[u]) : k = i - 1 /\ answers'[u][k] = answers[u][i]
    BY <1>1
  <2>2. ASSUME NEW j \in 1..Len(answers'[u]), j > k PROVE answers'[u][j][1] # "flushFile"
    <3>1. j + 1 \in 1..Len(answers[u]) /\ answers'[u][j] = answers[u][j + 1]
      BY <1>1, <1>3
    <3>2. j + 1 > i
      BY <2>1, <2>2
    <3> QED BY <1>6, <3>1, <3>2 DEF LastFlush
  <2>3. LastFlush(answers[u], k)'
    BY <1>6, <2>1, <2>2 DEF LastFlush
  <2> QED BY <1>6, <2>1, <2>3 DEF ListedAs
<1>7. CASE LastFlush(answers[u], 1) /\ answers[u][1][2] = E
  <2>1. list'[u] = E
    BY <1>1, <1>7 DEF LastFlush
  <2>2. ~FlushAnswered(u)'
    <3> SUFFICES ASSUME NEW i \in 1..Len(answers'[u]), answers'[u][i][1] = "flushFile"
                 PROVE  FALSE
      BY DEF FlushAnswered
    <3>1. i + 1 \in 1..Len(answers[u]) /\ i + 1 > 1
      BY <1>3
    <3>2. answers[u][i + 1][1] # "flushFile"
      BY <1>7, <3>1 DEF LastFlush
    <3> QED BY <1>1, <3>2
  <2> QED BY <1>4, <2>1, <2>2 DEF ListedAs
<1>8. CASE ~FlushAnswered(u) /\ list[u] = E
  <2>1. Head(answers[u])[1] # "flushFile"
    BY <1>1, <1>8 DEF FlushAnswered
  <2> QED BY <1>4, <1>5, <1>8, <2>1 DEF ListedAs
<1> QED BY <1>2, <1>4, <1>6, <1>7, <1>8 DEF ListedAs

\* Who asks for something has not been served.
LEMMA NotServed ==
    ASSUME FilesInv, NEW u \in Users, NEW op,
           requests'[u] = requests[u] \/ \E m : requests'[u] = Append(requests[u], m)
    PROVE  ~Served(u, op)
<1> SUFFICES ASSUME Served(u, op) PROVE FALSE
  OBVIOUS
<1>1. PICK s \in Seq(Requests(u)) : s = requests[u]
  BY QueuesTyped
<1>2. s # <<>> /\ requests'[u] = Tail(s)
  BY <1>1 DEF Served, Asked
<1>3. Len(Tail(s)) = Len(s) - 1 /\ Len(s) \in Nat
  BY <1>2, TakenFirst
<1>4. \A m : Len(Append(s, m)) = Len(s) + 1
  OBVIOUS
<1>5. Len(requests'[u]) = Len(s) \/ Len(requests'[u]) = Len(s) + 1
  BY <1>1, <1>4
<1>6. Len(requests'[u]) = Len(s) - 1
  BY <1>2, <1>3
<1>7. \A n \in Nat : n - 1 # n /\ n - 1 # n + 1
  OBVIOUS
<1> QED BY <1>3, <1>5, <1>6, <1>7, Zenon

\* Only a new list ends what a user was not told of.
LEMMA UnawareStays ==
    ASSUME Observe, NEW u \in Users, ~Served(u, "flushFile")
    PROVE  u \in unaware => u \in unaware'
BY DEF Observe

\* The directory of u, when nothing in it has changed.
LEMMA ListedHere ==
    ASSUME FilesInv, NEW u \in Users, Kept(u), m_strCurPath'[u] = m_strCurPath[u]
    PROVE  \E E : /\ E = Entries(m_strCurPath[u])
                  /\ Listed(u) => ListedAs(u, E)
                  /\ ListedAs(u, E)' => Listed(u)'
<1>c. PICK c \in Homes(u) : c = m_strCurPath[u]
  BY QueuesTyped
<1>e. PICK E : E = Entries(c)
  OBVIOUS
<1>1. Entries(c)' = E
  BY <1>e, EntriesKept
<1>2. Listed(u) => ListedAs(u, E)
  BY <1>c, <1>e DEF Listed
<1>3. Entries(m_strCurPath[u])' = E
  BY <1>c, <1>1 DEF Entries
<1>4. ListedAs(u, E)' => Listed(u)'
  BY <1>3 DEF Listed, ListedAs
<1> QED BY <1>c, <1>e, <1>2, <1>4

\* Nothing has happened to what u sees.
LEMMA ShownLeft ==
    ASSUME FilesInv, Observe, NEW u \in Users, ShownFor(u), Left(u), Kept(u) \/ Visited(u),
           undefined'[u] = undefined[u]
    PROVE  ShownFor(u)'
<1>1. u \in unaware => u \in unaware'
  BY NotServed, UnawareStays DEF Left
<1>2. /\ requests'[u] = requests[u] /\ list'[u] = list[u]
      /\ m_strCurPath'[u] = m_strCurPath[u]
  BY DEF Left
<1>v. ASSUME Visited(u) PROVE u \in unaware'
  BY <1>v, NotServed DEF Observe, Left
<1>e. ASSUME Kept(u)
      PROVE  \E E : (Listed(u) => ListedAs(u, E)) /\ (ListedAs(u, E)' => Listed(u)')
  BY <1>2, <1>e, ListedHere
<1>3. LastAsked(u)' /\ (FlushAsked(u) => FlushAsked(u)')
  BY <1>2 DEF LastAsked, LastFlush, ShownFor, FlushAsked
<1>4. ASSUME NEW E
      PROVE  /\ DoneAnswered(u) => DoneAnswered(u)'
             /\ ListedAs(u, E) => ListedAs(u, E)'
  <2>1. CASE answers'[u] = answers[u]
    BY <1>2, <2>1 DEF DoneAnswered, ListedAs, LastFlush, FlushAnswered
  <2>2. CASE answers'[u] # answers[u]
    <3>1. PICK m \in Answers :
            m[1] \in {"shareFile", "resend"} /\ answers'[u] = Append(answers[u], m)
      BY <2>2 DEF Left, Told
    <3> QED BY <1>2, <3>1, ListedMore
  <2> QED BY <2>1, <2>2
<1>5. CASE Kept(u)
  <2>1. PICK E : (Listed(u) => ListedAs(u, E)) /\ (ListedAs(u, E)' => Listed(u)')
    BY <1>5, <1>e
  <2> QED BY <2>1, <1>1, <1>3, <1>4 DEF ShownFor, WillList
<1>6. CASE Visited(u)
  BY <1>3, <1>6, <1>v DEF ShownFor
<1> QED BY <1>5, <1>6

\* A click: the list of where u is by now is asked for, or nothing changes.
LEMMA ShownActs ==
    ASSUME FilesInv, Observe, NEW u \in Users, ShownFor(u), Act(u)
    PROVE  ShownFor(u)'
<1>1. CASE \E p : Enters(u, p)
  <2>1. PICK p : p \in Homes(u) /\ Enter(u, p) /\ Click(u, FlushOf(p))
    BY <1>1 DEF Enters, Enter
  <2>2. PICK m \in Requests(u) : m = <<"flushFile", p>>
    BY <2>1, RequestsAre
  <2>3. requests'[u] = Append(requests[u], m) /\ m_strCurPath'[u] = p
    BY <2>1, <2>2, ClickTypes, EnterWindows DEF FlushOf, FilesInv
  <2>4. m[1] = "flushFile" /\ m[2] = m_strCurPath'[u]
    BY <2>2, <2>3
  <2>5. LastAsked(u)' /\ FlushAsked(u)'
    BY <2>3, <2>4, LastAskedMore DEF ShownFor
  <2> QED BY <2>5 DEF ShownFor, WillList
<1>2. CASE \E m : Asks(u, m)
  <2>1. PICK m : m \in Requests(u) /\ Click(u, m) /\ UNCHANGED <<m_strCurPath, list>>
                     /\ m[1] # "flushFile"
    BY <1>2 DEF Asks
  <2>2. /\ UNCHANGED <<answers, fs, undefined, m_strCurPath, list>>
        /\ requests'[u] = Append(requests[u], m)
    BY <2>1, ClickTypes
  <2>3. LastAsked(u)' /\ (FlushAsked(u) => FlushAsked(u)')
    BY <2>1, <2>2, LastAskedMore DEF ShownFor
  <2>4. u \in unaware => u \in unaware'
    BY <2>2, NotServed, UnawareStays
  <2>5. (DoneAnswered(u) => DoneAnswered(u)') /\ (Listed(u) => Listed(u)')
    BY <2>2 DEF DoneAnswered, Listed, ListedAs, LastFlush, FlushAnswered, Entries, IsDir, Exists
  <2> QED BY <2>2, <2>3, <2>4, <2>5 DEF ShownFor, WillList
<1>3. CASE Notes(u)
  <2>1. Left(u) /\ Kept(u) /\ undefined' = undefined
    BY <1>3 DEF Notes, Left, Told, Kept, serverVars, messageVars
  <2> QED BY <2>1, ShownLeft
<1> QED BY <1>1, <1>2, <1>3, ActIs

\* What u asked for was done, or has changed nothing, or was half done.
LEMMA ShownAnswered ==
    ASSUME FilesInv, Observe, NEW u \in Users, ShownFor(u), NEW m, Replied(u, m),
           Head(requests[u])[1] \in Changing, m[1] \in Outcomes
    PROVE  ShownFor(u)'
<1>0. /\ requests[u] # <<>> /\ requests'[u] = Tail(requests[u])
      /\ m \in Answers /\ answers'[u] = Append(answers[u], m)
      /\ UNCHANGED <<m_strCurPath, list, undefined>>
      /\ Head(requests[u])[1] # "flushFile"
  BY RepliedIs DEF Changing
<1>1. LastAsked(u)' /\ (FlushAsked(u) => FlushAsked(u)')
  BY <1>0, LastAskedLess DEF ShownFor
<1>2. u \in unaware => u \in unaware'
  BY <1>0, UnawareStays DEF Served, Asked
<1>3. DoneAnswered(u) => DoneAnswered(u)'
  BY <1>0, ListedMore
<1>4. CASE m[2]
  BY <1>0, <1>1, <1>4, ListedMore DEF Done, ShownFor, WillList
<1>5. CASE ~m[2] /\ fs' # fs
  <2>1. Last(answers'[u]) = m
    BY <1>0, QueuesTyped, SentLast
  <2>2. Served(u, Head(requests[u])[1]) /\ ~Served(u, "flushFile")
    BY <1>0 DEF Served, Asked
  <2>3. \E op \in Changing : Served(u, op)
    BY <2>2
  <2>4. u \in unaware'
    BY <1>5, <2>1, <2>2, <2>3 DEF Observe, HalfDone
  <2> QED BY <1>1, <2>4 DEF ShownFor
<1>6. CASE ~m[2] /\ fs' = fs
  <2>1. Kept(u) /\ m[1] # "flushFile"
    BY <1>6 DEF Kept, Outcomes
  <2>2. PICK E : (Listed(u) => ListedAs(u, E)) /\ (ListedAs(u, E)' => Listed(u)')
    BY <1>0, <2>1, ListedHere
  <2>3. ListedAs(u, E) => ListedAs(u, E)'
    BY <1>0, <2>1, ListedMore
  <2> QED BY <1>0, <1>1, <1>2, <1>3, <2>2, <2>3 DEF ShownFor, WillList
<1> QED BY <1>4, <1>5, <1>6

\* A list that is answered is the last one, or another was asked for.
LEMMA ShownFlush ==
    ASSUME FilesInv, NEW u \in Users, ShownFor(u), FlushFile(u)
    PROVE  ShownFor(u)'
<1>1. /\ fs' = fs /\ Head(requests[u])[1] = "flushFile"
      /\ Replied(u, <<"flushFile", Entries(Arg(u, 1))>>)
  BY FlushStep
<1>m. PICK m : m = <<"flushFile", Entries(Arg(u, 1))>>
  OBVIOUS
<1>2. /\ requests[u] # <<>> /\ requests'[u] = Tail(requests[u])
      /\ m \in Answers /\ answers'[u] = Append(answers[u], m)
      /\ UNCHANGED <<m_strCurPath, list>>
  BY <1>1, <1>m, RepliedIs
<1>3. LastAsked(u)' /\ (FlushAsked(u)' \/ Arg(u, 1) = m_strCurPath[u])
  BY <1>1, <1>2, LastAskedLess DEF ShownFor, Arg
<1>4. CASE Arg(u, 1) = m_strCurPath[u]
  <2>1. Kept(u)
    BY <1>1 DEF Kept
  <2>2. PICK E : E = Entries(m_strCurPath[u]) /\ (ListedAs(u, E)' => Listed(u)')
    BY <1>2, <2>1, ListedHere
  <2>3. m[1] = "flushFile" /\ m[2] = E
    BY <1>m, <1>4, <2>2
  <2>4. ListedAs(u, E)'
    BY <1>2, <2>3, ListedMore
  <2> QED BY <1>3, <2>2, <2>4 DEF ShownFor, WillList
<1> QED BY <1>3, <1>4 DEF ShownFor, WillList

\* Sharing changes nothing that is shown.
LEMMA ShownShares ==
    ASSUME FilesInv, Observe, NEW u \in Users, ShownFor(u), ShareFile(u)
    PROVE  ShownFor(u)'
<1>m. PICK m \in Answers : m = <<"shareFile", TRUE>>
  BY AnswersAre
<1>1. /\ fs' = fs /\ UNCHANGED <<m_strCurPath, list, undefined>>
      /\ requests[u] # <<>> /\ requests'[u] = Tail(requests[u])
      /\ Head(requests[u])[1] # "flushFile" /\ answers'[u] = Append(answers[u], m)
      /\ m[1] # "flushFile"
  BY <1>m, ShareStep DEF windowVars
<1>2. LastAsked(u)' /\ (FlushAsked(u) => FlushAsked(u)')
  BY <1>1, LastAskedLess DEF ShownFor
<1>3. u \in unaware => u \in unaware'
  BY <1>1, UnawareStays DEF Served, Asked
<1>4. Kept(u)
  BY <1>1 DEF Kept
<1>5. PICK E : (Listed(u) => ListedAs(u, E)) /\ (ListedAs(u, E)' => Listed(u)')
  BY <1>1, <1>4, ListedHere
<1>6. (ListedAs(u, E) => ListedAs(u, E)') /\ (DoneAnswered(u) => DoneAnswered(u)')
  BY <1>1, ListedMore
<1> QED BY <1>1, <1>2, <1>3, <1>5, <1>6 DEF ShownFor, WillList

\* Whatever the server does for u, what is shown is right or will be.
LEMMA ShownServes ==
    ASSUME FilesInv, Observe, NEW u \in Users, ShownFor(u), Serve(u)
    PROVE  ShownFor(u)'
<1>1. CASE Mkdir(u) \/ DelDir(u) \/ RenameFile(u) \/ ShareFileAgree(u)
  <2>1. \E m : Replied(u, m) /\ m[1] \in Outcomes
    <3>1. \E op \in Outcomes : \E b : Replied(u, <<op, b>>)
      BY <1>1, MkdirStep, DelDirStep, RenameStep, AgreeStep DEF Outcomes
    <3>2. PICK op \in Outcomes : \E b : Replied(u, <<op, b>>)
      BY <3>1
    <3>3. PICK b : Replied(u, <<op, b>>)
      BY <3>2
    <3>4. PICK m : m = <<op, b>>
      OBVIOUS
    <3> QED BY <3>3, <3>4
  <2>2. Head(requests[u])[1] \in Changing
    BY <1>1 DEF Mkdir, DelDir, RenameFile, ShareFileAgree, Asked, Changing
  <2> QED BY <2>1, <2>2, ShownAnswered
<1>2. CASE FlushNothing(u)
  <2>1. /\ requests[u] # <<>> /\ requests'[u] = Tail(requests[u])
        /\ m_strCurPath' = m_strCurPath
    BY <1>2, NothingStep DEF windowVars
  <2>2. undefined'[u]
    BY <1>2 DEF FlushNothing, FilesInv, CountsOK
  <2>3. LastAsked(u)'
    BY <2>1, LastAskedLess DEF ShownFor
  <2> QED BY <2>2, <2>3 DEF ShownFor
<1> QED BY <1>1, <1>2, ShownFlush, ShownShares DEF Serve

\* Whatever u is answered, what is shown is right or will be.
LEMMA ShownHears ==
    ASSUME FilesInv, Observe, NEW u \in Users, ShownFor(u), Hear(u)
    PROVE  ShownFor(u)'
<1>1. /\ Listens(u)
      /\ IF Head(answers[u])[1] = "flushFile" THEN list'[u] = Head(answers[u])[2]
         ELSE list'[u] = list[u]
      /\ \/ requests'[u] = requests[u] /\ ~Done(Head(answers[u]))
         \/ \E m \in Requests(u) :
              /\ requests'[u] = Append(requests[u], m)
              /\ m[1] = "flushFile" /\ m[2] = m_strCurPath[u]
         \/ \E m \in Requests(u) :
              /\ requests'[u] = Append(requests[u], m) /\ ~Done(Head(answers[u]))
              /\ m[1] # "flushFile"
  <2>1. CASE UpdateFileList(u)
    <3>1. /\ Listens(u) /\ Head(answers[u])[1] = "flushFile"
          /\ requests'[u] = requests[u] /\ list'[u] = Answer(u)
      BY <2>1, UpdateStep
    <3> QED BY <3>1 DEF Answer, Done, Outcomes
  <2>2. CASE Refresh(u)
    <3>1. /\ Listens(u) /\ UNCHANGED list /\ Head(answers[u])[1] \in Outcomes
          /\ IF Answer(u)
             THEN requests'[u] = Append(requests[u], <<"flushFile", m_strCurPath[u]>>)
             ELSE requests'[u] = requests[u]
      BY <2>2, RefreshStep
    <3>2. PICK m \in Requests(u) : m = <<"flushFile", m_strCurPath[u]>>
      BY QueuesTyped, RequestsAre
    <3>3. m[1] = "flushFile" /\ m[2] = m_strCurPath[u]
      BY <3>2
    <3>4. Head(answers[u])[1] # "flushFile" /\ (~Answer(u) => ~Done(Head(answers[u])))
      BY <3>1 DEF Outcomes, Answer, Done
    <3> QED BY <3>1, <3>2, <3>3, <3>4
  <2>3. CASE ShowShared(u) \/ ShareFileResend(u)
    <3>1. /\ Listens(u) /\ UNCHANGED list
          /\ Head(answers[u])[1] \in {"shareFile", "resend"}
          /\ \/ requests'[u] = requests[u]
             \/ \E p \in AnyItem : requests'[u] = Append(requests[u], <<"agree", p>>)
      BY <2>3, SharedStep
    <3>2. Head(answers[u])[1] # "flushFile" /\ ~Done(Head(answers[u]))
      BY <3>1 DEF Outcomes, Done
    <3>3. ASSUME NEW p \in AnyItem, requests'[u] = Append(requests[u], <<"agree", p>>)
          PROVE  \E m \in Requests(u) :
                   requests'[u] = Append(requests[u], m) /\ m[1] # "flushFile"
      <4>1. PICK m \in Requests(u) : m = <<"agree", p>>
        BY RequestsAre
      <4>2. m[1] = "agree"
        BY <4>1
      <4> QED BY <3>3, <4>1, <4>2
    <3> QED BY <3>1, <3>2, <3>3
  <2> QED BY <2>1, <2>2, <2>3 DEF Hear
<1>2. UNCHANGED <<fs, m_strCurPath, undefined>>
  BY <1>1 DEF Listens, serverVars
<1>3. u \in unaware => u \in unaware'
  BY <1>1, NotServed, UnawareStays
<1>4. Kept(u)
  BY <1>2 DEF Kept
<1>5. PICK E : (Listed(u) => ListedAs(u, E)) /\ (ListedAs(u, E)' => Listed(u)')
  BY <1>2, <1>4, ListedHere
<1>6. /\ ListedAs(u, E) => ListedAs(u, E)'
      /\ ~Done(Head(answers[u])) => (DoneAnswered(u) => DoneAnswered(u)')
  BY <1>1, ListedLess
<1>7. CASE requests'[u] = requests[u] /\ ~Done(Head(answers[u]))
  <2>1. LastAsked(u)' /\ (FlushAsked(u) => FlushAsked(u)')
    BY <1>2, <1>7 DEF LastAsked, LastFlush, ShownFor, FlushAsked
  <2> QED BY <1>2, <1>3, <1>5, <1>6, <1>7, <2>1 DEF ShownFor, WillList
<1>8. ASSUME NEW m \in Requests(u), requests'[u] = Append(requests[u], m),
             m[1] = "flushFile" /\ m[2] = m_strCurPath[u]
      PROVE  ShownFor(u)'
  <2>1. LastAsked(u)' /\ FlushAsked(u)'
    BY <1>2, <1>8, LastAskedMore DEF ShownFor
  <2> QED BY <2>1 DEF ShownFor, WillList
<1>9. ASSUME NEW m \in Requests(u), requests'[u] = Append(requests[u], m),
             ~Done(Head(answers[u])), m[1] # "flushFile"
      PROVE  ShownFor(u)'
  <2>1. LastAsked(u)' /\ (FlushAsked(u) => FlushAsked(u)')
    BY <1>2, <1>9, LastAskedMore DEF ShownFor
  <2> QED BY <1>2, <1>3, <1>5, <1>6, <1>9, <2>1 DEF ShownFor, WillList
<1> QED BY <1>1, <1>7, <1>8, <1>9

\* Safety: what File shows of the directory that the client is in is how it is
\* on the server, whenever nothing is under way, but for what failed half way
\* and for what another user made there with a name that leads out of the own
\* directory.
THEOREM PatientsSeeWhatIs == FHSpec => []ShownIsReal
<1>1. FHInit => ShownInv
  <2> SUFFICES ASSUME FHInit, NEW u \in Users PROVE ShownFor(u)
    BY DEF ShownInv
  <2>1. /\ requests[u] = <<>> \/ requests[u] = <<FlushOf(<<u>>)>>
        /\ answers[u] = <<>> /\ m_strCurPath[u] = <<u>> /\ list[u] = Entries(m_strCurPath[u])
    BY DEF FHInit, FilesInit
  <2>2. 1..Len(answers[u]) = {}
    BY <2>1
  <2>3. \A i \in 1..Len(requests[u]) : requests[u][i] = FlushOf(<<u>>)
    BY <2>1
  <2>4. LastAsked(u)
    BY <2>1, <2>3 DEF LastAsked, FlushOf
  <2> QED BY <2>1, <2>2, <2>4 DEF ShownFor, WillList, Listed, ListedAs, FlushAnswered
<1>2. FilesInv /\ ShownInv /\ [FHNext]_fhVars => ShownInv'
  <2> SUFFICES ASSUME FilesInv, ShownInv, [FHNext]_fhVars, NEW u \in Users
               PROVE  ShownFor(u)'
    BY DEF ShownInv
  <2>0. ShownFor(u)
    BY DEF ShownInv
  <2>1. CASE FHNext
    <3>1. [FilesNext]_filesVars /\ Observe
      BY <2>1 DEF FHNext
    <3> QED BY <2>0, <3>1, StepOf, ShownActs, ShownServes, ShownHears, ShownLeft DEF Spared
  <2>2. CASE UNCHANGED fhVars
    BY <2>0, <2>2
    DEF fhVars, filesVars, serverVars, windowVars, messageVars, ShownFor, LastAsked, LastFlush,
        WillList, FlushAsked, DoneAnswered, Listed, ListedAs, FlushAnswered, Entries, IsDir, Exists
  <2> QED BY <2>1, <2>2
<1>3. FilesInv /\ ShownInv => ShownIsReal
  <2> SUFFICES ASSUME FilesInv, ShownInv, NEW u \in Users \ unaware, Pending(u) = 0,
                      ~undefined[u]
               PROVE  list[u] = Entries(m_strCurPath[u])
    BY DEF ShownIsReal
  <2>1. Listed(u) /\ ~FlushAnswered(u)
    BY NothingIsDue DEF ShownInv, ShownFor, WillList
  <2> QED BY <2>1 DEF Listed, ListedAs, LastFlush, FlushAnswered
<1> QED BY <1>1, <1>2, <1>3, FHTypes, PTL DEF FHSpec

-----------------------------------------------------------------------------
(* The entry that copyDir goes through last, of a set S of paths that holds *)
(* every path that a path of S goes through.                               *)

Agree(s, r, k) == \A j \in 1..k : s[j] = r[j]

\* What CHOOSE looks for in Deciding, among the paths S.
IsLast(S, r) ==
    \A s \in S : \A i \in 1..Len(s) :
        SubSeq(s, 1, i - 1) = SubSeq(r, 1, i - 1) => Len(r) >= i /\ s[i] <= r[i]

\* r is what one comes to by always taking the last name.
Latest(S, r) ==
    \A s \in S : \A i \in 1..Len(s) : i <= Len(r) /\ Agree(s, r, i - 1) => s[i] <= r[i]

\* Equal beginnings agree, even beyond the end of one of them.
LEMMA CutsAgree ==
    ASSUME NEW s \in Seq(Names), NEW r \in Seq(Names), NEW k \in Nat,
           SubSeq(s, 1, k) = SubSeq(r, 1, k)
    PROVE  Agree(s, r, k)
<1>1. ASSUME NEW j \in 1..k PROVE SubSeq(s, 1, k)[j] = s[j] /\ SubSeq(r, 1, k)[j] = r[j]
  OBVIOUS
<1> QED BY <1>1 DEF Agree

\* Of the names that may come after r, the last one leads on.
LEMMA LatestGoesOn ==
    ASSUME NEW S \in SUBSET Seq(Names), \A s \in S : \A k \in 0..Len(s) : SubSeq(s, 1, k) \in S,
           NEW r \in S, Latest(S, r), NEW s \in S, Len(s) > Len(r), Agree(s, r, Len(r))
    PROVE  \E t \in S : Latest(S, t) /\ Len(t) = Len(r) + 1
<1> DEFINE C == {n \in Names : Append(r, n) \in S}
<1>1. ASSUME NEW t \in S, Len(t) > Len(r), Agree(t, r, Len(r))
      PROVE  t[Len(r) + 1] \in C
  <2>1. PICK k \in 0..Len(t) : k = Len(r) + 1 /\ k \in 1..Len(t)
    BY <1>1
  <2>2. PICK c \in Seq(Names) : c = SubSeq(t, 1, k) /\ c \in S
    BY <1>1, <2>1, CutIs
  <2>3. Len(c) = k /\ \A j \in 1..k : c[j] = t[j]
    BY <2>1, <2>2, CutIs
  <2>4. PICK n \in Names : n = t[k]
    BY <2>1
  <2>5. PICK a \in Seq(Names) : a = Append(r, n)
    BY SentLast
  <2>6. Len(a) = k /\ a[k] = t[k] /\ \A j \in 1..Len(r) : a[j] = r[j]
    BY <2>1, <2>4, <2>5, SentLast
  <2>7. \A j \in 1..k : j \in 1..Len(r) \/ j = k
    BY <2>1
  <2>8. \A j \in 1..k : a[j] = c[j]
    BY <1>1, <2>3, <2>6, <2>7 DEF Agree
  <2>9. a = c
    BY <2>3, <2>6, <2>8, SeqEqual
  <2> QED BY <2>1, <2>2, <2>4, <2>5, <2>9
<1>2. C \in SUBSET Nat /\ \A n \in C : n <= MaxName
  BY FilesAssumption DEF Names
<1>3. C # {}
  BY <1>1
<1>4. MaxName \in Nat
  BY FilesAssumption
<1> HIDE DEF C
<1>5. PICK n \in C : \A x \in C : x <= n
  BY <1>2, <1>3, <1>4, GreatestOf
<1>6. n \in Names /\ Append(r, n) \in S
  BY DEF C
<1>7. PICK t \in S : t = Append(r, n)
  BY <1>6
<1>8. Len(t) = Len(r) + 1 /\ t[Len(r) + 1] = n /\ \A j \in 1..Len(r) : t[j] = r[j]
  BY <1>6, <1>7, SentLast
<1>9. Latest(S, t)
  <2> SUFFICES ASSUME NEW x \in S, NEW i \in 1..Len(x), i <= Len(t), Agree(x, t, i - 1)
               PROVE  x[i] <= t[i]
    BY DEF Latest
  <2>1. Agree(x, r, i - 1)
    BY <1>8 DEF Agree
  <2>2. CASE i <= Len(r)
    BY <1>8, <2>1, <2>2 DEF Latest
  <2>3. CASE i = Len(r) + 1
    BY <1>1, <1>5, <1>8, <2>1, <2>3
  <2> QED BY <1>8, <2>2, <2>3
<1> QED BY <1>8, <1>9

\* Some path of S is the last one.
LEMMA LastExists ==
    ASSUME NEW S \in SUBSET Seq(Names), <<>> \in S, NEW b \in Nat, \A s \in S : Len(s) <= b,
           \A s \in S : \A k \in 0..Len(s) : SubSeq(s, 1, k) \in S
    PROVE  \E r \in S : IsLast(S, r)
<1> DEFINE L == {n \in Nat : \E r \in S : Latest(S, r) /\ Len(r) = n}
<1>1. Latest(S, <<>>)
  BY DEF Latest
<1>2. L # {} /\ L \in SUBSET Nat
  BY <1>1
<1>3. \A n \in L : n <= b
  OBVIOUS
<1>4. \A r \in S : Latest(S, r) => Len(r) \in L
  OBVIOUS
<1>5. \A n \in L : \E r \in S : Latest(S, r) /\ Len(r) = n
  OBVIOUS
<1> HIDE DEF L
<1>6. PICK n \in L : \A x \in L : x <= n
  BY <1>2, <1>3, GreatestOf
<1>7. PICK r \in S : Latest(S, r) /\ Len(r) = n
  BY <1>5
<1>8. ASSUME NEW s \in S, NEW i \in 1..Len(s), SubSeq(s, 1, i - 1) = SubSeq(r, 1, i - 1)
      PROVE  Len(r) >= i /\ s[i] <= r[i]
  <2>1. Agree(s, r, i - 1)
    BY <1>8, CutsAgree
  <2>2. CASE i <= Len(r)
    BY <1>7, <2>1, <2>2 DEF Latest
  <2>3. CASE i > Len(r)
    <3>1. Len(s) > Len(r) /\ Agree(s, r, Len(r))
      BY <2>1, <2>3 DEF Agree
    <3>2. PICK t \in S : Latest(S, t) /\ Len(t) = Len(r) + 1
      BY <1>7, <3>1, LatestGoesOn
    <3>3. Len(r) + 1 <= n
      BY <1>4, <1>6, <3>2
    <3> QED BY <1>7, <3>3
  <2> QED BY <2>2, <2>3
<1> QED BY <1>8 DEF IsLast

\* copyDir goes through all that is above an entry.
LEMMA SourcesClosed ==
    ASSUME IsTree(fs), NEW v \in Users, NEW src \in Items(v), NEW r \in Sources(src),
           NEW k \in 0..Len(r)
    PROVE  SubSeq(r, 1, k) \in Sources(src)
<1>1. /\ r \in Seq(Names) /\ (Exists(src) => Join(src, r) \in Under(src))
      /\ ~Exists(src) => r = <<>>
  BY SourcesAre
<1>2. r \in Seq(Elements) /\ src \in Seq(Elements) /\ Len(src) >= 1
  <2>1. r \in Seq(Elements)
    BY <1>1 DEF Elements
  <2>2. src \in Seq(Elements) /\ Len(src) >= 1
    BY ItemIs, HomeIs
  <2> QED BY <2>1, <2>2
<1>3. PICK c \in Seq(Elements) :
        /\ c = SubSeq(r, 1, k) /\ Len(c) = k /\ \A i \in 1..k : c[i] = r[i]
  <2>1. /\ SubSeq(r, 1, k) \in Seq(Elements) /\ Len(SubSeq(r, 1, k)) = k
        /\ \A i \in 1..k : SubSeq(r, 1, k)[i] = r[i]
    BY <1>2, CutIs
  <2> QED BY <2>1
<1>4. CASE k = 0
  <2>1. c = <<>>
    BY <1>3, <1>4
  <2> QED BY <1>3, <2>1 DEF Sources
<1>5. CASE k >= 1
  <2>1. Exists(src) /\ Join(src, r) \in DOMAIN fs
    BY <1>1, <1>5 DEF Under
  <2>2. PICK q \in Seq(Elements) : q = Join(src, r) /\ IsJoin(q, src, r)
    BY <1>2, JoinOf
  <2>3. PICK p \in Seq(Elements) : p = Join(src, c) /\ IsJoin(p, src, c)
    BY <1>2, JoinOf
  <2>4. Len(p) <= Len(q) /\ Len(p) >= 1
    BY <1>1, <1>2, <1>3, <2>2, <2>3 DEF IsJoin
  <2>5. ASSUME NEW i \in 1..Len(p) PROVE p[i] = q[i]
    <3>1. i \in 1..Len(src) + Len(c)
      BY <2>3 DEF IsJoin
    <3>2. CASE i \in 1..Len(src)
      BY <2>2, <2>3, <3>2 DEF IsJoin
    <3>3. CASE \E j \in 1..Len(c) : i = Len(src) + j
      <4>1. PICK j \in 1..Len(c) : i = Len(src) + j
        BY <3>3
      <4>2. c[j] = r[j]
        BY <1>3
      <4>3. j \in 1..Len(r)
        BY <1>2, <1>3
      <4>4. p[Len(src) + j] = c[j] /\ q[Len(src) + j] = r[j]
        BY <2>2, <2>3, <4>3 DEF IsJoin
      <4> QED BY <4>1, <4>2, <4>4
    <3> QED BY <1>2, <3>1, <3>2, <3>3, PlacesOf
  <2>6. IsPrefix(p, q)
    BY <2>4, <2>5, PrefixIs
  <2>7. p \in DOMAIN fs
    BY <2>1, <2>2, <2>4, <2>6, TreeClosed
  <2>8. IsPrefix(src, p) /\ Within(src, p) = c
    BY <1>2, <2>3, WithinJoin
  <2> QED BY <1>3, <2>7, <2>8 DEF Sources, Under
<1> QED BY <1>4, <1>5

\* There is a last entry, and its result is the one that is reported.
LEMMA DecidingIs ==
    ASSUME IsTree(fs), NEW v \in Users, NEW src \in Items(v)
    PROVE  Deciding(src) \in Sources(src)
<1>1. PICK S : S = Sources(src)
  OBVIOUS
<1>2. S \in SUBSET Seq(Names) /\ \A s \in S : Len(s) <= MaxDepth
  BY <1>1, SourcesAre
<1>3. <<>> \in S
  BY <1>1 DEF Sources
<1>4. \A s \in S : \A k \in 0..Len(s) : SubSeq(s, 1, k) \in S
  BY <1>1, SourcesClosed
<1>5. \E r \in S : IsLast(S, r)
  BY <1>2, <1>3, <1>4, LastExists, FilesAssumption
<1>6. \E r \in Sources(src) :
         \A s \in Sources(src) : \A i \in 1..Len(s) :
             SubSeq(s, 1, i - 1) = SubSeq(r, 1, i - 1) => Len(r) >= i /\ s[i] <= r[i]
  BY <1>1, <1>5 DEF IsLast
<1> QED BY <1>6 DEF Deciding

\* With the name free, room, and no fault, every entry is copied.
LEMMA AllMade ==
    ASSUME IsTree(fs), NEW u \in Users, NEW v \in Users, NEW src \in Items(v), Exists(src),
           IsDir(<<u>>), ~Exists(Dest(u, src)),
           \A q \in Under(src) : 2 + Len(q) - Len(src) <= MaxDepth,
           NEW r \in Sources(src)
    PROVE  r \in Made(src, Dest(u, src), {})
<1>d. PICK dest : dest = Dest(u, src)
  OBVIOUS
<1>1. dest \in Homes(u) /\ dest \in Seq(Elements) /\ Len(dest) = 2
  <2>1. dest = Append(<<u>>, Last(src))
    BY <1>d DEF Dest
  <2>2. dest \in Items(u) /\ Len(dest) = Len(<<u>>) + 1
    BY <2>1, ItemIs, RootIs, AppendIs
  <2>3. Len(dest) = 2
    BY <2>2, RootIs
  <2> QED BY <2>2, <2>3, ItemIs, HomeIs
<1>2. r \in Seq(Names) /\ Join(src, r) \in Under(src) /\ r \in Seq(Elements)
  BY SourcesAre DEF Elements
<1>3. src \in Seq(Elements)
  BY ItemIs, HomeIs
<1>4. Len(Join(dest, r)) <= MaxDepth
  <2>1. Len(Join(dest, r)) = 2 + Len(r)
    <3>1. IsJoin(Join(dest, r), dest, r)
      BY <1>1, <1>2, JoinOf
    <3> QED BY <1>1, <3>1 DEF IsJoin
  <2>2. Len(Join(src, r)) = Len(src) + Len(r)
    BY <1>2, <1>3, JoinOf DEF IsJoin
  <2>3. 2 + Len(Join(src, r)) - Len(src) <= MaxDepth
    BY <1>2
  <2> QED BY <1>2, <1>3, <2>1, <2>2, <2>3
<1>5. ASSUME NEW c \in Seq(Elements) PROVE ~Exists(Join(dest, c))
  <2>1. PICK q \in Seq(Elements) : q = Join(dest, c) /\ IsPrefix(dest, q)
    BY <1>1, JoinOf, WithinJoin
  <2>2. ASSUME q \in DOMAIN fs PROVE dest \in DOMAIN fs
    <3>1. Len(dest) >= 1
      BY <1>1
    <3> QED BY <1>1, <2>1, <2>2, <3>1, TreeClosed
  <2> QED BY <1>d, <2>1, <2>2 DEF Exists
<1>6. HasDir(dest, {}, r)
  <2> SUFFICES ASSUME NEW i \in 0..(Len(r) - 1)
               PROVE  ~Exists(Join(dest, SubSeq(r, 1, i)))
    BY DEF HasDir, Join
  <2>1. i \in 0..Len(r)
    BY <1>2
  <2>2. SubSeq(r, 1, i) \in Seq(Elements)
    BY <1>2, <2>1, CutIs
  <2> QED BY <1>5, <2>2
<1>7. Front(dest) = <<u>>
  <2>1. dest = Append(<<u>>, Last(src))
    BY <1>d DEF Dest
  <2>2. Last(src) \in Names /\ <<u>> \in Homes(u)
    BY ItemIs, RootIs
  <2>3. Front(Append(<<u>>, Last(src))) = <<u>>
    BY <2>2, AppendIs
  <2> QED BY <2>1, <2>3
<1>8. Copies(dest, {}, r)
  BY <1>2, <1>4, <1>5, <1>6, <1>7 DEF Copies, Join
<1> QED BY <1>d, <1>8 DEF Made

\* Who was served the acceptance of a share, was served by shareFileAgree.
LEMMA AgreeServed ==
    ASSUME FilesInv, [FilesNext]_filesVars, NEW u \in Users, Served(u, "agree")
    PROVE  ShareFileAgree(u)
<1>1. ~(requests'[u] = requests[u] \/ \E m : requests'[u] = Append(requests[u], m))
  BY NotServed
<1>2. ~Act(u)
  <2>1. ASSUME NEW p, Enters(u, p) PROVE FALSE
    <3>1. PICK m \in Requests(u) : Click(u, m)
      BY <2>1, RequestsAre DEF Enters, Enter, FlushOf
    <3> QED BY <1>1, <3>1, ClickTypes
  <2>2. ASSUME NEW m, Asks(u, m) PROVE FALSE
    BY <1>1, <2>2, ClickTypes DEF Asks
  <2>3. ~Notes(u)
    BY <1>1 DEF Notes, messageVars
  <2> QED BY <2>1, <2>2, <2>3, ActIs
<1>3. ~Hear(u)
  BY <1>1, UpdateStep, RefreshStep, SharedStep DEF Hear
<1>4. ~Left(u)
  BY <1>1 DEF Left
<1>5. Serve(u)
  BY <1>2, <1>3, <1>4, StepOf
<1>6. Head(requests[u])[1] = "agree"
  BY DEF Served, Asked
<1> QED BY <1>5, <1>6 DEF Serve, Mkdir, FlushFile, FlushNothing, DelDir, RenameFile, ShareFile,
                          Asked

\* What SharesCopy says, of one acceptance.
LEMMA SharesStep ==
    ASSUME FilesInv, NEW u \in Users, ShareFileAgree(u), NEW src, src = Arg(u, 1),
           NEW dest, dest = <<u, Last(src)>>
    PROVE  /\ \A q \in DOMAIN fs : q \in DOMAIN fs' /\ fs'[q] = fs[q]
           /\ \A q \in DOMAIN fs' \ DOMAIN fs : IsPrefix(dest, q)
           /\ IsDir(<<u>>) /\ Exists(src) /\ ~Exists(dest) /\ faults' = faults
                  /\ (\A q \in Under(src) : 2 + Len(q) - Len(src) <= MaxDepth)
              => CopyComplete(src, dest) /\ Last(answers'[u])[2]
<1>1. /\ Grows /\ src \in AnyItem
      /\ \E failing, m :
           /\ m = Made(src, Dest(u, src), failing)
           /\ fs' = Shared(src, Dest(u, src), m)
           /\ Replied(u, <<"agree", Deciding(src) \in m>>)
           /\ IF failing = {} THEN UNCHANGED faults ELSE Fault
  BY AgreeStep
<1>2. PICK failing, m :
        /\ m = Made(src, dest, failing) /\ fs' = Shared(src, dest, m)
        /\ Replied(u, <<"agree", Deciding(src) \in m>>)
        /\ IF failing = {} THEN UNCHANGED faults ELSE Fault
  BY <1>1 DEF Dest
<1>3. PICK v \in Users : src \in Items(v)
  BY <1>1 DEF AnyItem
<1>4. dest = Dest(u, src) /\ IsTree(fs)
  BY DEF Dest, FilesInv
<1>5. /\ DOMAIN fs' = DOMAIN fs \cup {Join(dest, r) : r \in m}
      /\ \A r \in m : fs'[Join(dest, r)] = IF Exists(src) THEN fs[Join(src, r)] ELSE Dir
  <2>1. PICK t : t = Shared(src, dest, m)
    OBVIOUS
  <2>2. IsShared(t, src, dest, m)
    BY <1>2, <1>3, <1>4, <2>1, SharedIs
  <2>3. fs' = t
    BY <1>2, <2>1
  <2> QED BY <2>2, <2>3 DEF IsShared
<1>6. \A r \in m : IsPrefix(dest, Join(dest, r))
  BY <1>2, <1>3, <1>4, MadeAre
<1>7. \A q \in DOMAIN fs' \ DOMAIN fs : IsPrefix(dest, q)
  BY <1>5, <1>6
<1>8. ASSUME IsDir(<<u>>), Exists(src), ~Exists(dest), faults' = faults,
             \A q \in Under(src) : 2 + Len(q) - Len(src) <= MaxDepth
      PROVE  CopyComplete(src, dest) /\ Last(answers'[u])[2]
  <2>1. failing = {}
    <3>1. faults \in Nat
      BY FilesAssumption DEF FilesInv, CountsOK
    <3>2. ~Fault
      BY <1>8, <3>1 DEF Fault
    <3> QED BY <1>2, <3>2
  <2>2. \A r \in Sources(src) : r \in m
    BY <1>2, <1>3, <1>4, <1>8, <2>1, AllMade
  <2>3. ASSUME NEW q \in Under(src)
        PROVE  Join(dest, Within(src, q)) \in DOMAIN fs'
                   /\ fs'[Join(dest, Within(src, q))] = fs[q]
    <3>1. PICK r : r = Within(src, q)
      OBVIOUS
    <3>2. r \in m
      BY <2>2, <3>1 DEF Sources
    <3>3. Join(src, r) = q
      <4>1. src \in Seq(Elements) /\ q \in Seq(Elements) /\ IsPrefix(src, q)
        BY <1>3, <1>4, ItemIs, HomeIs, TreePaths DEF Under
      <4> QED BY <3>1, <4>1, JoinWithin
    <3> QED BY <1>5, <1>8, <3>1, <3>2, <3>3
  <2>4. CopyComplete(src, dest)
    BY <2>3 DEF CopyComplete, Join
  <2>5. Deciding(src) \in m
    BY <1>3, <1>4, <2>2, DecidingIs
  <2>6. PICK a : a = <<"agree", Deciding(src) \in m>> /\ a \in Answers
    BY <1>2, RepliedIs
  <2>7. a[2]
    BY <2>5, <2>6
  <2>8. answers[u] \in Seq(Answers) /\ answers'[u] = Append(answers[u], a)
    BY <1>2, <2>6, QueuesTyped, RepliedIs
  <2>9. Last(answers'[u]) = a
    BY <2>6, <2>8, SentLast
  <2> QED BY <2>4, <2>7, <2>9
<1> QED BY <1>1, <1>7, <1>8 DEF Grows

\* shareFileAgree with copyDir: accepting a share changes nothing that was
\* there, and copies all of the source, and says so, when the file system lets
\* it; the result that it says is that of the last entry, which exists.
THEOREM AcceptedIsCopied == FHSpec => SharesCopy
<1>1. FilesInv /\ [FHNext]_fhVars =>
        [\A u \in Users : Served(u, "agree") =>
            LET src == Arg(u, 1)
                dest == <<u, Last(src)>>
            IN  /\ \A q \in DOMAIN fs : q \in DOMAIN fs' /\ fs'[q] = fs[q]
                /\ \A q \in DOMAIN fs' \ DOMAIN fs : IsPrefix(dest, q)
                /\ IsDir(<<u>>) /\ Exists(src) /\ ~Exists(dest) /\ faults' = faults
                       /\ (\A q \in Under(src) : 2 + Len(q) - Len(src) <= MaxDepth)
                   => CopyComplete(src, dest) /\ Last(answers'[u])[2]]_fhVars
  <2> SUFFICES ASSUME FilesInv, FHNext, NEW u \in Users, Served(u, "agree")
               PROVE  LET src == Arg(u, 1)
                          dest == <<u, Last(src)>>
                      IN  /\ \A q \in DOMAIN fs : q \in DOMAIN fs' /\ fs'[q] = fs[q]
                          /\ \A q \in DOMAIN fs' \ DOMAIN fs : IsPrefix(dest, q)
                          /\ IsDir(<<u>>) /\ Exists(src) /\ ~Exists(dest) /\ faults' = faults
                                 /\ (\A q \in Under(src) : 2 + Len(q) - Len(src) <= MaxDepth)
                             => CopyComplete(src, dest) /\ Last(answers'[u])[2]
    OBVIOUS
  <2>1. ShareFileAgree(u)
    BY AgreeServed DEF FHNext
  <2>2. PICK src, dest : src = Arg(u, 1) /\ dest = <<u, Last(src)>>
    OBVIOUS
  <2>3. /\ \A q \in DOMAIN fs : q \in DOMAIN fs' /\ fs'[q] = fs[q]
        /\ \A q \in DOMAIN fs' \ DOMAIN fs : IsPrefix(dest, q)
        /\ IsDir(<<u>>) /\ Exists(src) /\ ~Exists(dest) /\ faults' = faults
               /\ (\A q \in Under(src) : 2 + Len(q) - Len(src) <= MaxDepth)
           => CopyComplete(src, dest) /\ Last(answers'[u])[2]
    BY <2>1, <2>2, SharesStep
  <2> QED BY <2>2, <2>3
<1> QED BY <1>1, FHTypes, PTL DEF FHSpec, SharesCopy
=============================================================================
