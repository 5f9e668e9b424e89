----------------------------- MODULE PacketProofs -----------------------------
(***************************************************************************)
(* Theorems about packets, for any values of a byte, any packets, and any  *)
(* size of the queue: what is read from the bytes of a packet are its      *)
(* fields, and however the stream is cut the packets come through in order *)
(* and the reader gives up on nobody.                                      *)
(***************************************************************************)
EXTENDS Packet, ListLemmas

Byte == 0..(B - 1)
Char == 1..(B - 1)
Text == Seq(Char)

LEMMA Bytes ==
    /\ B \in Nat /\ B > 1 /\ NUL \in Byte /\ Char \subseteq Byte /\ NUL \notin Char
    /\ Text \subseteq Seq(Byte)
    /\ Packets \subseteq Seq(Text) /\ Garbage \subseteq Seq(Byte)
<1>1. B \in Nat /\ B > 1 /\ NUL \in Byte /\ Char \subseteq Byte /\ NUL \notin Char
    BY PacketAssumption DEF Byte, Char, NUL
<1>2. Text \subseteq Seq(Byte)
    BY <1>1, SeqMonotonic DEF Text
<1> QED  BY <1>1, <1>2, PacketAssumption DEF Byte, Char, Text

-----------------------------------------------------------------------------
(* The codec.                                                              *)

\* FieldBytes writes one field after the other.
Written(fields, f) ==
    /\ f \in [0..Len(fields) -> Seq(Byte)] /\ f[0] = <<>>
    /\ \A n \in 1..Len(fields) : f[n] = f[n - 1] \o Append(fields[n], NUL)

LEMMA FieldBytesAreWritten ==
    ASSUME NEW fields \in Seq(Text)
    PROVE  \E f : Written(fields, f) /\ FieldBytes(fields) = f[Len(fields)]
<1> DEFINE N == Len(fields)
           q == [i \in DOMAIN fields |-> Append(fields[i], NUL)]
           G == [x \in (1..N) \X Seq(Byte) |-> x[2] \o q[x[1]]]
<1>1. N \in Nat /\ DOMAIN fields = 1..N /\ \A i \in 1..N : fields[i] \in Seq(Byte)
    BY LenProperties, ElementOfSeq, Bytes
<1>2. q \in [1..N -> Seq(Byte)] /\ \A i \in 1..N : q[i] = Append(fields[i], NUL)
    BY <1>1, Bytes, AppendProperties
<1>3. q \in Seq(Seq(Byte)) /\ Len(q) = N
    BY <1>1, <1>2
<1> HIDE DEF q
<1>4. G \in [(1..N) \X Seq(Byte) -> Seq(Byte)]
    BY <1>2, ConcatProperties
<1>5. \A n \in 1..N, b \in Seq(Byte) : G[<<n, b>>] = b \o q[n]
    OBVIOUS
<1> HIDE DEF G
<1> HIDE DEF N
<1>6. PICK f : Follows(f, N, Seq(Byte), <<>>, G)
    <2>1. <<>> \in Seq(Byte)
        BY EmptySeq
    <2>2. N \in Nat
        BY <1>1
    <2> QED  BY <1>4, <2>1, <2>2, PlaceRecursion, Zenon
<1>7. \A n \in 1..N : f[n - 1] \in Seq(Byte) /\ f[n] = f[n - 1] \o q[n]
    <2> TAKE n \in 1..N
    <2>1. f[n - 1] \in Seq(Byte)
        BY <1>1, <1>6 DEF Follows
    <2> QED  BY <1>5, <1>6, <2>1 DEF Follows
<1>8. Written(fields, f)
    BY <1>2, <1>6, <1>7 DEF Written, Follows, N
<1>9. FieldBytes(fields) = FlattenSeq(q)
    BY DEF FieldBytes, q
<1>10. CASE N = 0
    <2>1. q = <<>>
        BY <1>3, <1>10, EmptySeq
    <2>2. FlattenSeq(q) = <<>>
        BY <1>3, <1>10, <2>1 DEF FlattenSeq
    <2> QED  BY <1>6, <1>8, <1>9, <1>10, <2>2 DEF Follows, N
<1>11. CASE N # 0
    <2> DEFINE D(g) == [i \in 1..Len(q) |-> IF i = 1 THEN q[i] ELSE g[i - 1] \o q[i]]
               h == [i \in 1..N |-> f[i]]
    <2>1. f[1] = q[1]
        <3>1. 1 \in 1..N /\ 1 - 1 = 0
            BY <1>1, <1>11
        <3>2. f[1] = f[0] \o q[1] /\ q[1] \in Seq(Byte)
            BY <1>2, <1>7, <3>1
        <3> QED  BY <1>6, <3>2, ConcatEmptySeq DEF Follows
    <2>2. h = D(h)
        <3>1. ASSUME NEW i \in 1..N
              PROVE  h[i] = IF i = 1 THEN q[i] ELSE h[i - 1] \o q[i]
            <4>1. CASE i = 1
                BY <2>1, <4>1
            <4>2. CASE i # 1
                <5>1. i - 1 \in 1..N
                    BY <1>1, <4>2
                <5> QED  BY <1>7, <4>2, <5>1
            <4> QED  BY <4>1, <4>2
        <3> QED  BY <1>3, <3>1
    <2> HIDE DEF h
    <2>3. PICK g : g = D(g) /\ FlattenSeq(q) = g[Len(q)]
        BY <1>3, <1>11, <2>2 DEF FlattenSeq
    <2> DEFINE T == {i \in 0..N : i # 0 => g[i] = f[i]}
    <2>4. ASSUME NEW i \in 1..N, i - 1 \in T
          PROVE  i \in T
        <3>1. g[i] = IF i = 1 THEN q[i] ELSE g[i - 1] \o q[i]
            BY <1>3, <2>3
        <3>2. i # 1 => g[i - 1] = f[i - 1]
            BY <1>1, <2>4
        <3>3. g[i] = f[i]
            BY <1>7, <2>1, <3>1, <3>2
        <3> QED  BY <1>1, <3>3
    <2>5. 0 \in T
        BY <1>1
    <2> HIDE DEF T
    <2>6. N \in T
        <3>1. N \in Nat
            BY <1>1
        <3>2. \A n \in 0..N : n \in T
            BY <2>4, <2>5, <3>1, PlaceInduction, Zenon
        <3> QED  BY <3>1, <3>2
    <2>7. g[N] = f[N]
        BY <1>11, <2>6 DEF T
    <2> QED  BY <1>3, <1>8, <1>9, <2>3, <2>7 DEF N
<1> QED  BY <1>10, <1>11

\* Split goes through the bytes one after the other.
Part == [fields : Seq(Seq(Byte)), rest : Seq(Byte)]

AfterByte(part, b) ==
    IF b = NUL THEN [fields |-> Append(part.fields, part.rest), rest |-> <<>>]
               ELSE [fields |-> part.fields, rest |-> Append(part.rest, b)]

IsSplit(body, f) ==
    /\ f \in [0..Len(body) -> Part]
    /\ f[0] = [fields |-> <<>>, rest |-> <<>>]
    /\ \A n \in 1..Len(body) : f[n] = AfterByte(f[n - 1], body[n])

LEMMA SplitGoesThrough ==
    ASSUME NEW body \in Seq(Byte)
    PROVE  \E f : IsSplit(body, f) /\ Split(body) = f[Len(body)].fields
<1> DEFINE N == Len(body)
           G == [x \in (1..N) \X Part |-> AfterByte(x[2], body[x[1]])]
           D(g) == [n \in 0..N |->
                       IF n = 0 THEN [fields |-> <<>>, rest |-> <<>>]
                       ELSE IF body[n] = NUL
                            THEN [fields |-> Append(g[n - 1].fields, g[n - 1].rest), rest |-> <<>>]
                            ELSE [fields |-> g[n - 1].fields,
                                  rest   |-> Append(g[n - 1].rest, body[n])]]
<1>1. N \in Nat /\ \A i \in 1..N : body[i] \in Byte
    BY LenProperties, ElementOfSeq
<1>2. ASSUME NEW part \in Part, NEW b \in Byte
      PROVE  AfterByte(part, b) \in Part
    <2>1. /\ part.fields \in Seq(Seq(Byte)) /\ part.rest \in Seq(Byte)
        BY DEF Part
    <2>2. /\ Append(part.fields, part.rest) \in Seq(Seq(Byte))
          /\ Append(part.rest, b) \in Seq(Byte) /\ <<>> \in Seq(Byte)
        BY <2>1, AppendProperties, EmptySeq
    <2> QED  BY <2>1, <2>2 DEF AfterByte, Part
<1>3. G \in [(1..N) \X Part -> Part]
    BY <1>1, <1>2
<1>4. \A n \in 1..N, p \in Part : G[<<n, p>>] = AfterByte(p, body[n])
    OBVIOUS
<1> HIDE DEF G, N
<1>5. [fields |-> <<>>, rest |-> <<>>] \in Part
    BY EmptySeq DEF Part
<1>6. PICK f : Follows(f, N, Part, [fields |-> <<>>, rest |-> <<>>], G)
    <2>1. N \in Nat
        BY <1>1
    <2> QED  BY <1>3, <1>5, <2>1, PlaceRecursion, Zenon
<1>7. \A n \in 1..N : f[n] = AfterByte(f[n - 1], body[n])
    <2> TAKE n \in 1..N
    <2>1. f[n - 1] \in Part
        BY <1>1, <1>6 DEF Follows
    <2> QED  BY <1>4, <1>6, <2>1 DEF Follows
<1>8. f = D(f)
    <2>1. ASSUME NEW n \in 0..N PROVE f[n] = D(f)[n]
        <3>1. CASE n = 0
            BY <1>6, <3>1 DEF Follows
        <3>2. CASE n # 0
            <4>1. n \in 1..N
                BY <3>2
            <4> QED  BY <1>7, <3>2, <4>1 DEF AfterByte
        <3> QED  BY <3>1, <3>2
    <2>2. DOMAIN f = 0..N /\ f = [n \in 0..N |-> f[n]]
        BY <1>6 DEF Follows
    <2> QED  BY <2>1, <2>2
<1>9. PICK g : g = D(g) /\ Split(body) = g[N].fields
    BY <1>8 DEF Split, N
<1> DEFINE T == {n \in 0..N : g[n] = f[n]}
<1>10. 0 \in T
    BY <1>1, <1>6, <1>9 DEF Follows
<1>11. ASSUME NEW n \in 1..N, n - 1 \in T
       PROVE  n \in T
    <2>1. g[n] = AfterByte(g[n - 1], body[n])
        <3>1. n # 0 /\ n \in 0..N
            BY <1>1
        <3>2. g[n] = IF body[n] = NUL
                     THEN [fields |-> Append(g[n - 1].fields, g[n - 1].rest), rest |-> <<>>]
                     ELSE [fields |-> g[n - 1].fields, rest |-> Append(g[n - 1].rest, body[n])]
            BY <1>9, <3>1
        <3> QED  BY <3>2 DEF AfterByte
    <2> QED  BY <1>7, <1>11, <2>1
<1> HIDE DEF T, D
<1>12. N \in T
    <2>1. N \in Nat
        BY <1>1
    <2>2. \A n \in 0..N : n \in T
        BY <1>10, <1>11, <2>1, PlaceInduction, Zenon
    <2> QED  BY <2>1, <2>2
<1>13. g[N] = f[N]
    BY <1>12 DEF T
<1> QED  BY <1>6, <1>7, <1>9, <1>13 DEF IsSplit, Follows, N

\* The text that ends in the first bytes is put behind the fields found before.
LEMMA SplitOneField ==
    ASSUME NEW body \in Seq(Byte), NEW f, IsSplit(body, f), NEW text \in Text,
           NEW k \in 0..Len(body), f[k].rest = <<>>,
           k + Len(text) + 1 <= Len(body),
           \A j \in 1..Len(text) : body[k + j] = text[j],
           body[k + Len(text) + 1] = NUL
    PROVE  f[k + Len(text) + 1] = [fields |-> Append(f[k].fields, text), rest |-> <<>>]
<1> DEFINE N == Len(text)
           found == f[k].fields
           T == {j \in 0..N : f[k + j] = [fields |-> found, rest |-> SubSeq(text, 1, j)]}
<1>1. /\ N \in Nat /\ k \in Nat /\ Len(body) \in Nat /\ \A j \in 1..N : text[j] \in Char
    BY LenProperties, ElementOfSeq DEF Text
<1>2. 0 \in T
    <2>1. f[k] \in Part
        BY DEF IsSplit
    <2>2. f[k] = [fields |-> found, rest |-> <<>>]
        BY <2>1 DEF Part
    <2>3. SubSeq(text, 1, 0) = <<>> /\ k + 0 = k
        BY <1>1, SubSeqEmpty
    <2> QED  BY <1>1, <2>2, <2>3
<1>3. ASSUME NEW j \in 1..N, j - 1 \in T
      PROVE  j \in T
    <2>1. f[k + (j - 1)] = [fields |-> found, rest |-> SubSeq(text, 1, j - 1)]
        BY <1>3
    <2>2. k + j \in 1..Len(body) /\ (k + j) - 1 = k + (j - 1)
        BY <1>1
    <2>3. f[k + j] = AfterByte(f[k + (j - 1)], body[k + j])
        BY <2>2 DEF IsSplit
    <2>4. body[k + j] = text[j] /\ text[j] # NUL
        BY <1>1, Bytes
    <2>5. SubSeq(text, 1, j) = Append(SubSeq(text, 1, j - 1), text[j])
        BY SubSeqGrows DEF Text
    <2>6. ASSUME NEW r PROVE AfterByte([fields |-> found, rest |-> r], text[j])
                             = [fields |-> found, rest |-> Append(r, text[j])]
        BY <2>4 DEF AfterByte
    <2>7. f[k + j] = [fields |-> found, rest |-> SubSeq(text, 1, j)]
        BY <2>1, <2>3, <2>4, <2>5, <2>6
    <2> QED  BY <2>7
<1> HIDE DEF T
<1>4. N \in T
    <2>1. \A j \in 0..N : j \in T
        BY <1>1, <1>2, <1>3, PlaceInduction, Zenon
    <2> QED  BY <1>1, <2>1
<1>5. f[k + N] = [fields |-> found, rest |-> text]
    <2>1. SubSeq(text, 1, N) = text
        BY SubSeqFull DEF Text
    <2> QED  BY <1>4, <2>1 DEF T
<1>6. k + N + 1 \in 1..Len(body) /\ (k + N + 1) - 1 = k + N
    BY <1>1
<1>7. f[k + N + 1] = AfterByte(f[k + N], NUL)
    BY <1>6 DEF IsSplit
<1> QED  BY <1>5, <1>7 DEF AfterByte

\* What Read makes of the bytes that New has written are the fields, for any list
\* of fields without a NUL; and only a packet without fields has none.
THEOREM ReadIsWritten ==
    ASSUME NEW fields \in Seq(Text)
    PROVE  /\ FieldBytes(fields) \in Seq(Byte)
           /\ Split(FieldBytes(fields)) = fields
           /\ fields # <<>> => Len(FieldBytes(fields)) > 0
<1>0. PICK N \in Nat : N = Len(fields)
    BY LenProperties
<1>1. \A n \in 1..N : fields[n] \in Text /\ fields[n] \in Seq(Byte)
    BY <1>0, ElementOfSeq, Bytes
<1>2. PICK w, body : Written(fields, w) /\ body = w[N] /\ FieldBytes(fields) = body
    BY <1>0, FieldBytesAreWritten
<1>3. \A n \in 0..N : w[n] \in Seq(Byte) /\ Len(w[n]) \in Nat
    BY <1>0, <1>2, LenProperties DEF Written
<1>4. ASSUME NEW n \in 1..N
      PROVE  /\ n - 1 \in 0..N /\ n \in 0..N
             /\ Len(fields[n]) \in Nat
             /\ Len(w[n]) = Len(w[n - 1]) + Len(fields[n]) + 1
             /\ \A i \in 1..Len(w[n - 1]) : w[n][i] = w[n - 1][i]
             /\ \A j \in 1..Len(fields[n]) : w[n][Len(w[n - 1]) + j] = fields[n][j]
             /\ w[n][Len(w[n - 1]) + Len(fields[n]) + 1] = NUL
    <2> DEFINE v == w[n - 1]
               t == fields[n]
               a == Append(t, NUL)
    <2>1. n - 1 \in 0..N /\ n \in 0..N /\ t \in Seq(Byte) /\ Len(t) \in Nat
        BY <1>1, LenProperties
    <2>2. v \in Seq(Byte) /\ Len(v) \in Nat /\ w[n] = v \o a
        BY <1>0, <1>2, <1>3, <2>1 DEF Written
    <2> HIDE DEF v, t
    <2>3. /\ a \in Seq(Byte) /\ Len(a) = Len(t) + 1
          /\ \A j \in 1..Len(t) : a[j] = t[j]
          /\ a[Len(t) + 1] = NUL
        BY <2>1, Bytes, AppendProperties
    <2> HIDE DEF a
    <2>4. /\ Len(w[n]) = Len(v) + Len(a)
          /\ \A i \in 1..(Len(v) + Len(a)) : w[n][i] = IF i <= Len(v) THEN v[i] ELSE a[i - Len(v)]
        <3>1. /\ Len(v \o a) = Len(v) + Len(a)
              /\ \A i \in 1..(Len(v) + Len(a)) :
                    (v \o a)[i] = IF i <= Len(v) THEN v[i] ELSE a[i - Len(v)]
            BY <2>2, <2>3, ConcatProperties
        <3> QED  BY <2>2, <3>1
    <2>5. \A i \in 1..Len(v) : w[n][i] = v[i]
        BY <2>1, <2>2, <2>3, <2>4
    <2>6. \A j \in 1..Len(a) : w[n][Len(v) + j] = a[j]
        BY <2>1, <2>2, <2>3, <2>4
    <2>7. \A j \in 1..Len(t) : w[n][Len(v) + j] = t[j]
        BY <2>1, <2>3, <2>6
    <2>8. w[n][Len(v) + (Len(t) + 1)] = NUL
        BY <2>1, <2>3, <2>6
    <2>9. Len(v) + (Len(t) + 1) = Len(v) + Len(t) + 1
        BY <2>1, <2>2
    <2> QED  BY <2>1, <2>3, <2>4, <2>5, <2>7, <2>8, <2>9 DEF v, t
<1>5. body \in Seq(Byte) /\ Len(body) \in Nat
    BY <1>2, <1>3
<1> DEFINE Begins(n) == Len(w[n]) <= Len(body) /\ \A i \in 1..Len(w[n]) : body[i] = w[n][i]
<1>6. \A n \in 0..N : Begins(n)
    <2> DEFINE T == {m \in 0..N : Begins(N - m)}
    <2>1. 0 \in T
        BY <1>2, <1>3
    <2>2. ASSUME NEW m \in 1..N, m - 1 \in T
          PROVE  m \in T
        <3>1. PICK n \in 1..N : n = N - (m - 1) /\ n - 1 = N - m
            OBVIOUS
        <3>2. Begins(n)
            BY <2>2, <3>1
        <3>3. PICK a \in Nat, b \in Nat :
                 /\ Len(w[n - 1]) = a /\ Len(w[n]) = a + b + 1
                 /\ \A i \in 1..a : w[n][i] = w[n - 1][i]
            BY <1>3, <1>4
        <3>4. Begins(n - 1)
            BY <1>5, <3>2, <3>3
        <3> QED  BY <3>1, <3>4
    <2> HIDE DEF T
    <2>3. \A m \in 0..N : m \in T
        BY <1>1, <2>1, <2>2, PlaceInduction, Zenon
    <2>4. ASSUME NEW n \in 0..N PROVE Begins(n)
        <3>1. N - n \in T /\ N - (N - n) = n
            BY <1>1, <2>3
        <3> QED  BY <3>1 DEF T
    <2> QED  BY <2>4
<1>7. PICK f : IsSplit(body, f) /\ Split(body) = f[Len(body)].fields
    BY <1>5, SplitGoesThrough
<1> DEFINE U == {n \in 0..N : f[Len(w[n])] = [fields |-> SubSeq(fields, 1, n), rest |-> <<>>]}
<1>8. 0 \in U
    <2>1. w[0] = <<>> /\ Len(w[0]) = 0
        BY <1>2, EmptySeq DEF Written
    <2>2. SubSeq(fields, 1, 0) = <<>>
        BY SubSeqEmpty
    <2> QED  BY <1>1, <1>7, <2>1, <2>2 DEF IsSplit
<1>9. ASSUME NEW n \in 1..N, n - 1 \in U
      PROVE  n \in U
    <2>0. PICK k, t : k = Len(w[n - 1]) /\ t = fields[n]
        OBVIOUS
    <2>1. f[k] = [fields |-> SubSeq(fields, 1, n - 1), rest |-> <<>>]
        BY <1>9, <2>0
    <2>2. Begins(n) /\ Len(w[n]) = k + Len(t) + 1 /\ Len(t) \in Nat /\ k \in Nat
        BY <1>3, <1>4, <1>6, <2>0
    <2>3. /\ k \in 0..Len(body) /\ k + Len(t) + 1 <= Len(body)
        BY <1>5, <2>2
    <2>4. ASSUME NEW j \in 1..Len(t)
          PROVE  body[k + j] = t[j]
        <3>1. k + j \in 1..Len(w[n])
            BY <2>2
        <3>2. w[n][k + j] = t[j]
            BY <1>4, <2>0
        <3> QED  BY <2>2, <3>1, <3>2
    <2>5. body[k + Len(t) + 1] = NUL
        <3>1. k + Len(t) + 1 \in 1..Len(w[n])
            BY <2>2
        <3>2. w[n][k + Len(t) + 1] = NUL
            BY <1>4, <2>0
        <3> QED  BY <2>2, <3>1, <3>2
    <2>6. t \in Text /\ f[k].rest = <<>> /\ f[k].fields = SubSeq(fields, 1, n - 1)
        BY <1>1, <2>0, <2>1
    <2>7. f[k + Len(t) + 1] = [fields |-> Append(f[k].fields, t), rest |-> <<>>]
        BY <1>5, <1>7, <2>3, <2>4, <2>5, <2>6, SplitOneField
    <2>8. SubSeq(fields, 1, n) = Append(SubSeq(fields, 1, n - 1), t)
        BY <1>0, <2>0, SubSeqGrows
    <2>9. f[Len(w[n])] = [fields |-> SubSeq(fields, 1, n), rest |-> <<>>]
        BY <2>2, <2>6, <2>7, <2>8
    <2> QED  BY <1>4, <2>9
<1> HIDE DEF U
<1>10. N \in U
    <2>1. \A n \in 0..N : n \in U
        BY <1>1, <1>8, <1>9, PlaceInduction, Zenon
    <2> QED  BY <1>1, <2>1
<1>11. Split(body) = fields
    <2>1. SubSeq(fields, 1, N) = fields
        BY <1>0, SubSeqFull
    <2> QED  BY <1>7, <1>2, <1>10, <2>1 DEF U
<1>12. ASSUME fields # <<>> PROVE Len(body) > 0
    <2>1. N \in 1..N
        BY <1>0, <1>12, EmptySeq
    <2>2. Len(w[N]) = Len(w[N - 1]) + Len(fields[N]) + 1
          /\ Len(w[N - 1]) \in Nat /\ Len(fields[N]) \in Nat
        BY <1>3, <1>4, <2>1
    <2>3. PICK a \in Nat, b \in Nat : Len(body) = a + b + 1
        BY <1>2, <2>2
    <2> QED  BY <2>3
<1> QED  BY <1>2, <1>5, <1>11, <1>12

\* The two bytes of a length give it back if it fits into them.
High(n) == (n \div B) % B
Low(n) == n % B

LEMMA LengthIsRead ==
    ASSUME NEW n \in Nat, n < B * B
    PROVE  B * High(n) + Low(n) = n
<1>1. B \in Nat /\ B > 1
    BY Bytes
<1>2. PICK q \in Nat : q = n \div B
    BY <1>1
<1>3. PICK r \in 0..(B - 1) : r = n % B
    BY <1>1
<1>4. n = B * q + r
    BY <1>1, <1>2, <1>3
<1>5. q < B
    <2> SUFFICES ASSUME q >= B PROVE FALSE
        BY <1>1, <1>2
    <2>1. B * q >= B * B
        BY <1>1
    <2> QED  BY <1>1, <1>4, <2>1
<1>6. q % B = q
    BY <1>1, <1>2, <1>5
<1>7. High(n) = q /\ Low(n) = r
    BY <1>2, <1>3, <1>6 DEF High, Low
<1> QED  BY <1>4, <1>7

LEMMA NewIsFramed ==
    ASSUME NEW p \in Seq(Text)
    PROVE  /\ New(p) \in Seq(Byte) /\ FieldBytes(p) \in Seq(Byte)
           /\ NBytes(p) \in Nat /\ Len(FieldBytes(p)) = NBytes(p) - 2
           /\ p # <<>> => NBytes(p) > 2
           /\ \E b, c \in Byte : /\ New(p) = <<b, c>> \o FieldBytes(p)
                                 /\ NBytes(p) < B * B => B * b + c = NBytes(p)
<1>1. /\ FieldBytes(p) \in Seq(Byte) /\ Len(FieldBytes(p)) \in Nat
      /\ p # <<>> => Len(FieldBytes(p)) > 0
    BY ReadIsWritten, LenProperties
<1>2. PICK n \in Nat : n = NBytes(p) /\ n = 2 + Len(FieldBytes(p))
    BY <1>1 DEF NBytes
<1>3. PICK b \in Byte, c \in Byte : b = High(n) /\ c = Low(n)
    BY Bytes DEF Byte, High, Low
<1>4. New(p) = <<b, c>> \o FieldBytes(p)
    BY <1>2, <1>3 DEF New, High, Low
<1>5. <<b, c>> \in Seq(Byte)
    BY <1>3
<1>6. New(p) \in Seq(Byte)
    BY <1>1, <1>4, <1>5, ConcatProperties
<1>7. n < B * B => B * b + c = n
    BY <1>3, LengthIsRead
<1>8. /\ NBytes(p) \in Nat /\ Len(FieldBytes(p)) = NBytes(p) - 2
      /\ p # <<>> => NBytes(p) > 2
    BY <1>1, <1>2
<1>9. New(p) = <<b, c>> \o FieldBytes(p) /\ (NBytes(p) < B * B => B * b + c = NBytes(p))
    BY <1>2, <1>4, <1>7, Zenon
<1>10. \E x, y \in Byte : /\ New(p) = <<x, y>> \o FieldBytes(p)
                          /\ NBytes(p) < B * B => B * x + y = NBytes(p)
    BY <1>9, Zenon
<1> QED  BY <1>1, <1>6, <1>8, <1>10, Zenon

-----------------------------------------------------------------------------
(* What the variables are.                                                 *)

Fields == Seq(Seq(Byte))

Types ==
    /\ wire \in Seq(Byte) /\ buffer \in Seq(Byte)
    /\ link \in {"open", "fin", "closed"}
    /\ \/ reader \in {Length, Ended}
       \/ \E n \in Nat : reader = Body(n)
       \/ \E p \in Fields : reader = Queue(p)
    /\ dataStream \in Seq(Fields) /\ Len(dataStream) <= QueueSize
    /\ handler \in {"loop", "gone"}
    /\ sent \in Seq(Seq(Text)) /\ Len(sent) <= MaxSent
    /\ handled \in Seq(Fields)

LEMMA SplitType ==
    ASSUME NEW body \in Seq(Byte) PROVE Split(body) \in Fields
<1>1. PICK f : IsSplit(body, f) /\ Split(body) = f[Len(body)].fields
    BY SplitGoesThrough
<1>2. Len(body) \in 0..Len(body)
    BY LenProperties
<1> QED  BY <1>1, <1>2 DEF IsSplit, Part, Fields

LEMMA DropType ==
    ASSUME Types, NEW n \in Nat, Drop(n) PROVE buffer' \in Seq(Byte)
<1>1. \A i \in (n + 1)..Len(buffer) : buffer[i] \in Byte
    BY ElementOfSeq DEF Types
<1>2. Len(buffer) \in Int /\ n + 1 \in Int
    BY LenProperties DEF Types
<1> QED  BY <1>1, <1>2, SubSeqProperties DEF Drop

LEMMA SendTypes ==
    ASSUME Types, NEW bytes \in Seq(Byte), NEW p \in Seq(Text),
           wire' = wire \o bytes, sent' = Append(sent, p), Len(sent) < MaxSent,
           UNCHANGED <<buffer, link, reader, dataStream, handler, handled>>
    PROVE  Types'
<1>1. wire' \in Seq(Byte)
    BY ConcatProperties DEF Types
<1>2. sent' \in Seq(Seq(Text)) /\ Len(sent') = Len(sent) + 1 /\ Len(sent) \in Nat
    BY AppendProperties, LenProperties DEF Types
<1>3. Len(sent') <= MaxSent
    BY <1>2, PacketAssumption
<1> QED  BY <1>1, <1>2, <1>3 DEF Types

LEMMA ArriveTypes == ASSUME Types, Arrive PROVE Types'
<1>1. PICK n \in 1..Len(wire) : /\ buffer' = buffer \o SubSeq(wire, 1, n)
                               /\ wire' = SubSeq(wire, n + 1, Len(wire))
    BY DEF Arrive
<1>2. Len(wire) \in Nat /\ n \in Nat /\ \A i \in 1..Len(wire) : wire[i] \in Byte
    BY LenProperties, ElementOfSeq DEF Types
<1>3. SubSeq(wire, 1, n) \in Seq(Byte)
    BY <1>2, SubSeqProperties
<1>4. SubSeq(wire, n + 1, Len(wire)) \in Seq(Byte)
    <2>1. \A i \in (n + 1)..Len(wire) : wire[i] \in Byte
        BY <1>2
    <2> QED  BY <1>2, <2>1, SubSeqProperties
<1>5. buffer \o SubSeq(wire, 1, n) \in Seq(Byte)
    BY <1>3, ConcatProperties DEF Types
<1> QED  BY <1>1, <1>4, <1>5 DEF Types, Arrive

\* What ReadInt does with the number m in the next two bytes.
LEMMA ReadIntCases ==
    ASSUME Types, ReadInt
    PROVE  \/ \E b, c \in Byte, m \in Nat :
                  /\ b = buffer[1] /\ c = buffer[2] /\ m = B * b + c
                  /\ Has(2) /\ Drop(2) /\ Len(buffer) \in Nat /\ Len(buffer) >= 2
                  /\ reader' = IF m <= 2 THEN Ended ELSE Body(m - 2)
           \/ Never(2) /\ reader' = Ended /\ UNCHANGED buffer
<1>1. CASE Has(2) /\ Drop(2) /\ LET nlen == B * buffer[1] + buffer[2]
                                IN  reader' = IF nlen <= 2 THEN Ended ELSE Body(nlen - 2)
    <2>1. Len(buffer) \in Nat /\ Len(buffer) >= 2
        BY <1>1, LenProperties DEF Types, Has
    <2>2. PICK b \in Byte, c \in Byte : b = buffer[1] /\ c = buffer[2]
        BY <2>1, ElementOfSeq DEF Types
    <2>3. PICK m \in Nat : m = B * b + c
        BY Bytes DEF Byte
    <2>4. reader' = IF m <= 2 THEN Ended ELSE Body(m - 2)
        BY <1>1, <2>2, <2>3
    <2> QED  BY <1>1, <2>1, <2>2, <2>3, <2>4
<1>2. CASE Never(2) /\ reader' = Ended /\ UNCHANGED buffer
    BY <1>2
<1> QED  BY <1>1, <1>2, Zenon DEF ReadInt

LEMMA ReadIntTypes == ASSUME Types, ReadInt PROVE Types'
<1>1. UNCHANGED <<wire, link, dataStream, handler, sent, handled>>
    BY DEF ReadInt
<1>2. ASSUME NEW m \in Nat, Drop(2), reader' = IF m <= 2 THEN Ended ELSE Body(m - 2)
      PROVE  Types'
    <2>1. buffer' \in Seq(Byte)
        BY <1>2, DropType
    <2>2. m > 2 => m - 2 \in Nat
        OBVIOUS
    <2>3. reader' = Ended \/ \E n \in Nat : reader' = Body(n)
        BY <1>2, <2>2
    <2> QED  BY <1>1, <2>1, <2>3 DEF Types
<1>3. CASE reader' = Ended /\ UNCHANGED buffer
    BY <1>1, <1>3 DEF Types
<1> QED  BY <1>2, <1>3, ReadIntCases

LEMMA ReadStringTypes == ASSUME Types, ReadString PROVE Types'
<1>1. PICK n \in Nat : reader = Body(n) /\ reader.nlen = n
    BY DEF Types, ReadString, Length, Ended, Queue, Body
<1>2. CASE /\ Has(n) /\ Drop(n)
           /\ reader' = Queue(Split(SubSeq(buffer, 1, n)))
    <2>1. buffer' \in Seq(Byte)
        BY <1>2, DropType
    <2>2. Len(buffer) \in Nat /\ Len(buffer) >= n
        BY <1>2, LenProperties DEF Types, Has
    <2>3. \A i \in 1..n : buffer[i] \in Byte
        BY <2>2, ElementOfSeq DEF Types
    <2>4. Split(SubSeq(buffer, 1, n)) \in Fields
        <3>1. 1 \in Int /\ n \in Int
            OBVIOUS
        <3>2. SubSeq(buffer, 1, n) \in Seq(Byte)
            BY <2>3, <3>1, SubSeqProperties
        <3> QED  BY <3>2, SplitType
    <2> QED  BY <1>2, <2>1, <2>4 DEF Types, ReadString
<1>3. CASE reader' = Ended /\ UNCHANGED buffer
    BY <1>3 DEF Types, ReadString
<1> QED  BY <1>1, <1>2, <1>3 DEF ReadString

LEMMA EnqueueTypes == ASSUME Types, Enqueue PROVE Types'
<1>1. PICK p \in Fields : reader = Queue(p) /\ reader.packet = p
    BY DEF Types, Enqueue, Length, Ended, Queue, Body
<1>2. /\ dataStream' \in Seq(Fields) /\ Len(dataStream') = Len(dataStream) + 1
      /\ Len(dataStream) \in Nat
    BY <1>1, AppendProperties, LenProperties DEF Types, Enqueue
<1>3. Len(dataStream') <= QueueSize
    BY <1>2, PacketAssumption DEF Enqueue
<1> QED  BY <1>2, <1>3 DEF Types, Enqueue

LEMMA HandleTypes == ASSUME Types, Handle PROVE Types'
<1>1. /\ Head(dataStream) \in Fields /\ dataStream' \in Seq(Fields)
      /\ Len(dataStream') = Len(dataStream) - 1
    BY HeadTailProperties DEF Types, Handle
<1>2. Len(dataStream') <= QueueSize
    BY <1>1, LenProperties, PacketAssumption DEF Types
<1>3. handled' \in Seq(Fields)
    <2>1. handled \in Seq(Fields) /\ Append(handled, Head(dataStream)) \in Seq(Fields)
        BY <1>1, AppendProperties DEF Types
    <2> QED  BY <2>1 DEF Handle
<1> QED  BY <1>1, <1>2, <1>3 DEF Types, Handle

LEMMA InitTypes == Init => Types
BY EmptySeq, PacketAssumption DEF Init, Types

LEMMA NextTypes == Types /\ [Next]_vars => Types'
<1> SUFFICES ASSUME Types, [Next]_vars PROVE Types'
    OBVIOUS
<1>1. ASSUME NEW p \in Packets, SendPacket(p) PROVE Types'
    BY <1>1, Bytes, NewIsFramed, SendTypes DEF SendPacket
<1>2. ASSUME NEW g \in Garbage, SendGarbage(g) PROVE Types'
    BY <1>2, Bytes, EmptySeq, SendTypes DEF SendGarbage
<1>3. CASE PeerCloses \/ Disconnect \/ Finish
    BY <1>3 DEF Types, PeerCloses, Disconnect, Finish
<1>4. CASE UNCHANGED vars
    BY <1>4 DEF Types, vars
<1> QED
    BY <1>1, <1>2, <1>3, <1>4, ArriveTypes, ReadIntTypes, ReadStringTypes, EnqueueTypes, HandleTypes
    DEF Next

LEMMA TypesInvariant == Spec => []Types
BY InitTypes, NextTypes, PTL DEF Spec

\* Whatever arrives, however it is cut, the reader reads bytes and the handler gets
\* lists of fields, and no more of them wait than the channel has room for.
THEOREM TypeCorrect == Spec => []TypeOK
<1>1. Types => TypeOK
    <2> SUFFICES ASSUME Types PROVE TypeOK
        OBVIOUS
    <2>1. ToSet(wire) \subseteq 0..(B - 1) /\ ToSet(buffer) \subseteq 0..(B - 1)
        BY ElementsOfSeq DEF Types, Byte
    <2>2. reader.at \in {"length", "body", "queue", "ended"}
        BY DEF Types, Length, Ended, Body, Queue
    <2> QED  BY <2>1, <2>2 DEF Types, TypeOK
<1> QED  BY <1>1, TypesInvariant, PTL

-----------------------------------------------------------------------------
(* The stream.  What has been taken off it are the first packets that were *)
(* sent, and what is still on it are the bytes of the others, from where   *)
(* the reader is.                                                          *)

InHand == IF reader.at = "queue" THEN <<reader.packet>> ELSE <<>>
Taken == handled \o dataStream \o InHand

\* st[i] are the bytes of the packets behind the i-th.
Framed(st, k) ==
    /\ st \in [k..Len(sent) -> Seq(Byte)] /\ st[Len(sent)] = <<>>
    /\ \A i \in (k + 1)..Len(sent) : st[i - 1] = New(sent[i]) \o st[i]

\* k packets have been taken, and perhaps the length of the next one.
ReaderAt(k, st) ==
    IF reader.at = "body"
    THEN /\ k < Len(sent) /\ reader.nlen = Len(FieldBytes(sent[k + 1]))
         /\ buffer \o wire = FieldBytes(sent[k + 1]) \o st[k + 1]
    ELSE buffer \o wire = st[k]

Reading(k) ==
    IF reader = Ended THEN link # "open" ELSE \E st : Framed(st, k) /\ ReaderAt(k, st)

InStep == \E k \in 0..Len(sent) : Taken = SubSeq(sent, 1, k) /\ Reading(k)

StreamInv == Fits => InStep

LEMMA BytesAssociate == \A x, y, z \in Seq(Byte) : (x \o y) \o z = x \o (y \o z)
BY ConcatAssociative

LEMMA SentTypes ==
    ASSUME Types
    PROVE  /\ sent \in Seq(Fields) /\ Len(sent) \in Nat
           /\ \A i \in 1..Len(sent) : sent[i] \in Seq(Text) /\ New(sent[i]) \in Seq(Byte)
<1>1. Seq(Text) \subseteq Fields
    BY Bytes, SeqMonotonic DEF Fields
<1>2. sent \in Seq(Seq(Text))
    BY DEF Types
<1>3. \A i \in 1..Len(sent) : sent[i] \in Seq(Text)
    BY <1>2, ElementOfSeq
<1> QED  BY <1>1, <1>2, <1>3, SeqMonotonic, LenProperties, NewIsFramed

\* The reader goes on where it is as long as no bytes are lost between the wire and
\* the buffer, and no packet between the queue and the handler.
LEMMA StreamKept ==
    ASSUME StreamInv, UNCHANGED <<sent, reader>>, buffer' \o wire' = buffer \o wire,
           Fits => Taken' = Taken, link # "open" => link' # "open"
    PROVE  StreamInv'
<1> SUFFICES ASSUME Fits' PROVE InStep'
    BY DEF StreamInv
<1>1. Fits
    BY DEF Fits
<1>2. PICK k \in 0..Len(sent) : Taken = SubSeq(sent, 1, k) /\ Reading(k)
    BY <1>1 DEF StreamInv, InStep
<1>3. Reading(k)'
    <2>1. CASE reader = Ended
        BY <1>2, <2>1 DEF Reading
    <2>2. CASE reader # Ended
        <3>1. PICK st : Framed(st, k) /\ ReaderAt(k, st)
            BY <1>2, <2>2 DEF Reading
        <3>2. Framed(st, k)' /\ ReaderAt(k, st)'
            BY <3>1 DEF Framed, ReaderAt
        <3> QED  BY <2>2, <3>2 DEF Reading
    <2> QED  BY <2>1, <2>2
<1>4. Taken' = SubSeq(sent', 1, k) /\ k \in 0..Len(sent')
    BY <1>1, <1>2
<1> QED  BY <1>3, <1>4 DEF InStep

LEMMA ArriveStream == ASSUME Types, StreamInv, Arrive PROVE StreamInv'
<1>1. PICK n \in 1..Len(wire) : /\ buffer' = buffer \o SubSeq(wire, 1, n)
                               /\ wire' = SubSeq(wire, n + 1, Len(wire))
    BY DEF Arrive
<1>2. Len(wire) \in Nat /\ n \in Nat /\ \A i \in 1..Len(wire) : wire[i] \in Byte
    BY LenProperties, ElementOfSeq DEF Types
<1>3. SubSeq(wire, 1, n) \in Seq(Byte)
    BY <1>2, SubSeqProperties
<1>4. SubSeq(wire, n + 1, Len(wire)) \in Seq(Byte)
    <2>1. \A i \in (n + 1)..Len(wire) : wire[i] \in Byte
        BY <1>2
    <2> QED  BY <1>2, <2>1, SubSeqProperties
<1>5. SubSeq(wire, 1, n) \o SubSeq(wire, n + 1, Len(wire)) = wire
    <2>1. 1 \in 1..(Len(wire) + 1) /\ n \in (1 - 1)..Len(wire) /\ Len(wire) \in n..Len(wire)
        BY <1>2
    <2>2. SubSeq(wire, 1, n) \o SubSeq(wire, n + 1, Len(wire)) = SubSeq(wire, 1, Len(wire))
        BY <2>1, ConcatAdjacentSubSeq DEF Types
    <2> QED  BY <2>2, SubSeqFull DEF Types
<1>6. buffer' \o wire' = buffer \o wire
    <2>1. buffer \in Seq(Byte)
        BY DEF Types
    <2>2. (buffer \o SubSeq(wire, 1, n)) \o SubSeq(wire, n + 1, Len(wire))
          = buffer \o (SubSeq(wire, 1, n) \o SubSeq(wire, n + 1, Len(wire)))
        BY <1>3, <1>4, <2>1, BytesAssociate
    <2> QED  BY <1>1, <1>5, <2>2
<1> QED  BY <1>6, StreamKept DEF Arrive, Taken, InHand

\* The bytes of a packet that is sent are put behind those of the others.
LEMMA SendStream ==
    ASSUME Types, StreamInv, NEW p \in Packets, SendPacket(p) PROVE StreamInv'
<1> SUFFICES ASSUME Fits' PROVE InStep'
    BY DEF StreamInv
<1>1. /\ p \in Seq(Text) /\ New(p) \in Seq(Byte)
      /\ sent \in Seq(Seq(Text)) /\ wire \in Seq(Byte) /\ buffer \in Seq(Byte)
    BY Bytes, NewIsFramed DEF Types
<1>2. PICK N \in Nat : N = Len(sent)
    BY SentTypes
<1>3. /\ sent' = Append(sent, p) /\ Len(sent') = N + 1
      /\ \A i \in 1..N : sent'[i] = sent[i]
      /\ sent'[N + 1] = p
    BY <1>1, <1>2, AppendProperties DEF SendPacket
<1>4. Fits
    <2>1. \A i \in 1..N : i \in DOMAIN sent'
        BY <1>1, <1>3, AppendProperties, LenProperties
    <2> QED  BY <1>1, <1>2, <1>3, <2>1, LenProperties DEF Fits
<1>5. PICK k \in 0..N : Taken = SubSeq(sent, 1, k) /\ Reading(k)
    BY <1>2, <1>4 DEF StreamInv, InStep
<1>6. reader # Ended /\ reader' = reader
    BY <1>5 DEF Reading, SendPacket
<1>7. PICK st : Framed(st, k) /\ ReaderAt(k, st)
    BY <1>5, <1>6 DEF Reading
<1>8. \A i \in k..N : st[i] \in Seq(Byte) /\ st[i] \o New(p) \in Seq(Byte)
    BY <1>1, <1>2, <1>7, ConcatProperties DEF Framed
<1> DEFINE tt == [i \in k..(N + 1) |-> IF i = N + 1 THEN <<>> ELSE st[i] \o New(p)]
<1>9. /\ tt \in [k..(N + 1) -> Seq(Byte)] /\ tt[N + 1] = <<>>
      /\ \A i \in k..N : tt[i] = st[i] \o New(p)
    BY <1>8, EmptySeq
<1> HIDE DEF tt
<1>10. ASSUME NEW i \in (k + 1)..(N + 1)
       PROVE  tt[i - 1] = New(sent'[i]) \o tt[i]
    <2>1. i - 1 \in k..N /\ tt[i - 1] = st[i - 1] \o New(p)
        BY <1>9
    <2>2. CASE i = N + 1
        <3>1. st[i - 1] = <<>>
            BY <1>2, <1>7, <2>2 DEF Framed
        <3> QED  BY <1>1, <1>3, <1>9, <2>1, <2>2, <3>1, ConcatEmptySeq
    <2>3. CASE i # N + 1
        <3>1. i \in (k + 1)..N /\ i \in k..N /\ i \in 1..N
            BY <2>3
        <3>2. st[i - 1] = New(sent[i]) \o st[i]
            BY <1>2, <1>7, <3>1 DEF Framed
        <3>3. (New(sent[i]) \o st[i]) \o New(p) = New(sent[i]) \o (st[i] \o New(p))
            <4>1. New(sent[i]) \in Seq(Byte) /\ st[i] \in Seq(Byte)
                BY <1>2, <1>8, <3>1, SentTypes
            <4>2. PICK a \in Seq(Byte), b \in Seq(Byte), c \in Seq(Byte) :
                     a = New(sent[i]) /\ b = st[i] /\ c = New(p)
                BY <1>1, <4>1
            <4>3. (a \o b) \o c = a \o (b \o c)
                BY BytesAssociate
            <4> QED  BY <4>2, <4>3
        <3> QED  BY <1>3, <1>9, <2>1, <3>1, <3>2, <3>3
    <2> QED  BY <2>2, <2>3
<1>11. Framed(tt, k)'
    BY <1>3, <1>9, <1>10 DEF Framed
<1>12. buffer' \o wire' = (buffer \o wire) \o New(p)
    <2>1. (buffer \o wire) \o New(p) = buffer \o (wire \o New(p))
        BY <1>1, BytesAssociate
    <2>2. buffer' = buffer /\ wire' = wire \o New(p)
        BY DEF SendPacket
    <2> QED  BY <2>1, <2>2
<1>13. ReaderAt(k, tt)'
    <2>1. CASE reader.at = "body"
        <3>1. k < N /\ k + 1 \in 1..N /\ k + 1 \in k..N
            BY <1>2, <1>7, <2>1 DEF ReaderAt
        <3>2. /\ reader.nlen = Len(FieldBytes(sent[k + 1]))
              /\ buffer \o wire = FieldBytes(sent[k + 1]) \o st[k + 1]
            BY <1>7, <2>1 DEF ReaderAt
        <3>3. FieldBytes(sent[k + 1]) \in Seq(Byte)
            BY <1>2, <3>1, SentTypes, NewIsFramed
        <3>4. (buffer \o wire) \o New(p) = FieldBytes(sent[k + 1]) \o (st[k + 1] \o New(p))
            <4>1. st[k + 1] \in Seq(Byte)
                BY <1>8, <3>1
            <4>2. (FieldBytes(sent[k + 1]) \o st[k + 1]) \o New(p)
                  = FieldBytes(sent[k + 1]) \o (st[k + 1] \o New(p))
                <5>1. PICK a \in Seq(Byte), b \in Seq(Byte), c \in Seq(Byte) :
                         a = FieldBytes(sent[k + 1]) /\ b = st[k + 1] /\ c = New(p)
                    BY <1>1, <3>3, <4>1
                <5>2. (a \o b) \o c = a \o (b \o c)
                    BY BytesAssociate
                <5> QED  BY <5>1, <5>2
            <4> QED  BY <3>2, <4>2
        <3>5. k < Len(sent') /\ sent'[k + 1] = sent[k + 1] /\ tt[k + 1] = st[k + 1] \o New(p)
            <4>1. k < N + 1
                BY <3>1
            <4> QED  BY <1>3, <1>9, <3>1, <4>1
        <3> QED  BY <1>6, <1>12, <2>1, <3>2, <3>4, <3>5 DEF ReaderAt
    <2>2. CASE reader.at # "body"
        <3>1. k \in k..N /\ buffer \o wire = st[k]
            BY <1>7, <2>2 DEF ReaderAt
        <3>2. tt[k] = st[k] \o New(p)
            BY <1>9, <3>1
        <3> QED  BY <1>6, <1>12, <2>2, <3>1, <3>2 DEF ReaderAt
    <2> QED  BY <2>1, <2>2
<1>14. SubSeq(sent', 1, k) = SubSeq(sent, 1, k)
    BY <1>1, <1>2, <1>3, BeginningKept
<1>15. Taken' = Taken
    BY DEF Taken, InHand, SendPacket
<1>16. Reading(k)'
    BY <1>6, <1>11, <1>13 DEF Reading
<1>17. k \in 0..Len(sent')
    BY <1>3
<1> QED  BY <1>5, <1>14, <1>15, <1>16, <1>17 DEF InStep

\* After garbage nothing is said about the stream.
LEMMA GarbageStream ==
    ASSUME Types, StreamInv, NEW g \in Garbage, SendGarbage(g) PROVE StreamInv'
<1>1. PICK N \in Nat : N = Len(sent)
    BY SentTypes
<1>2. sent \in Seq(Seq(Text)) /\ <<>> \in Seq(Text) /\ sent' = Append(sent, <<>>)
    BY EmptySeq DEF Types, SendGarbage
<1>3. sent' \in Seq(Seq(Text)) /\ Len(sent') = N + 1 /\ sent'[N + 1] = <<>>
    BY <1>1, <1>2, AppendProperties
<1>4. N + 1 \in DOMAIN sent'
    BY <1>3, LenProperties
<1>5. ~Fits'
    BY <1>3, <1>4 DEF Fits
<1> QED  BY <1>5 DEF StreamInv

\* One packet more is in hand: it is the next one that was sent.
LEMMA TakenGrows ==
    ASSUME Types, NEW k \in 0..Len(sent), k < Len(sent),
           InHand = <<>>, Taken = SubSeq(sent, 1, k)
    PROVE  /\ handled \o dataStream = SubSeq(sent, 1, k)
           /\ (handled \o dataStream) \o <<sent[k + 1]>> = SubSeq(sent, 1, k + 1)
<1>1. PICK N \in Nat : N = Len(sent)
    BY SentTypes
<1>2. handled \o dataStream \in Seq(Fields)
    BY ConcatProperties DEF Types
<1>3. handled \o dataStream = SubSeq(sent, 1, k)
    BY <1>2, ConcatEmptySeq DEF Taken
<1>4. k + 1 \in 1..Len(sent) /\ (k + 1) - 1 = k
    BY <1>1
<1>5. SubSeq(sent, 1, k + 1) = Append(SubSeq(sent, 1, k), sent[k + 1])
    BY <1>4, SentTypes, SubSeqGrows
<1>6. sent[k + 1] \in Fields
    BY <1>4, SentTypes, ElementOfSeq
<1>7. (handled \o dataStream) \o <<sent[k + 1]>> = Append(handled \o dataStream, sent[k + 1])
    BY <1>2, <1>6, AppendIsConcat
<1> QED  BY <1>3, <1>5, <1>7

\* The length that is read is that of the next packet.
LEMMA ReadIntStream == ASSUME Types, StreamInv, ReadInt PROVE StreamInv'
<1> SUFFICES ASSUME Fits' PROVE InStep'
    BY DEF StreamInv
<1>1. UNCHANGED <<wire, link, dataStream, handler, sent, handled>> /\ reader = Length
    BY DEF ReadInt
<1>2. Fits
    BY <1>1 DEF Fits
<1>3. PICK N \in Nat : N = Len(sent)
    BY SentTypes
<1>4. PICK k \in 0..N : Taken = SubSeq(sent, 1, k) /\ Reading(k)
    BY <1>2, <1>3 DEF StreamInv, InStep
<1>5. reader # Ended /\ reader.at # "body" /\ reader.at # "queue"
    BY <1>1 DEF Length, Ended
<1>6. PICK st : Framed(st, k) /\ buffer \o wire = st[k]
    BY <1>4, <1>5 DEF Reading, ReaderAt
<1>7. /\ reader' = Ended => reader'.at # "queue"
      /\ \A n : reader' = Body(n) => reader'.at = "body" /\ reader'.nlen = n /\ reader' # Ended
    BY DEF Ended, Body
<1>8. ASSUME reader'.at # "queue" PROVE Taken' = SubSeq(sent', 1, k)
    BY <1>1, <1>4, <1>5, <1>8 DEF Taken, InHand
<1>9. CASE Never(2) /\ reader' = Ended /\ UNCHANGED buffer
    <2>1. Reading(k)'
        BY <1>1, <1>9 DEF Reading, Never
    <2> QED  BY <1>1, <1>3, <1>7, <1>8, <1>9, <2>1 DEF InStep
<1>10. ASSUME NEW b \in Byte, NEW c \in Byte, NEW m \in Nat,
              b = buffer[1], c = buffer[2], m = B * b + c,
              Has(2), Drop(2), Len(buffer) \in Nat, Len(buffer) >= 2,
              reader' = IF m <= 2 THEN Ended ELSE Body(m - 2)
       PROVE  InStep'
    <2>1. buffer \in Seq(Byte) /\ wire \in Seq(Byte)
        BY DEF Types
    <2>2. k < N
        <3> SUFFICES ASSUME k = N PROVE FALSE
            BY <1>3
        <3>1. buffer \o wire = <<>>
            BY <1>3, <1>6 DEF Framed
        <3>2. Len(buffer \o wire) = Len(buffer) + Len(wire) /\ Len(wire) \in Nat
            BY <2>1, ConcatProperties, LenProperties
        <3> QED  BY <1>10, <3>1, <3>2
    <2>3. PICK p : p = sent[k + 1] /\ p \in Seq(Text) /\ p # <<>> /\ NBytes(p) < B * B
        <3>1. k + 1 \in 1..N /\ k + 1 \in DOMAIN sent
            BY <1>3, <2>2, SentTypes, LenProperties
        <3>2. sent[k + 1] \in Seq(Text) /\ sent[k + 1] # <<>> /\ NBytes(sent[k + 1]) < B * B
            BY <1>2, <1>3, <3>1, SentTypes DEF Fits
        <3> QED  BY <3>2
    <2>4. PICK x \in Byte, y \in Byte :
             /\ New(p) = <<x, y>> \o FieldBytes(p) /\ B * x + y = NBytes(p)
        BY <2>3, NewIsFramed
    <2>5. PICK n \in Nat : n = NBytes(p) /\ n > 2 /\ Len(FieldBytes(p)) = n - 2
        BY <2>3, NewIsFramed
    <2>6. FieldBytes(p) \in Seq(Byte) /\ <<x, y>> \in Seq(Byte) /\ Len(<<x, y>>) = 2
        BY <2>3, <2>4, NewIsFramed
    <2>7. st[k] = New(p) \o st[k + 1] /\ st[k + 1] \in Seq(Byte)
        <3>1. k + 1 \in (k + 1)..N /\ k + 1 \in k..N /\ (k + 1) - 1 = k
            BY <2>2
        <3> QED  BY <1>3, <1>6, <2>3, <3>1 DEF Framed
    <2>8. FieldBytes(p) \o st[k + 1] \in Seq(Byte)
        BY <2>6, <2>7, ConcatProperties
    <2>9. buffer \o wire = <<x, y>> \o (FieldBytes(p) \o st[k + 1])
        <3>1. (<<x, y>> \o FieldBytes(p)) \o st[k + 1] = <<x, y>> \o (FieldBytes(p) \o st[k + 1])
            BY <2>6, <2>7, BytesAssociate
        <3> QED  BY <1>6, <2>4, <2>7, <3>1
    <2>10. /\ SubSeq(buffer, 1, 2) = <<x, y>>
           /\ SubSeq(buffer, 2 + 1, Len(buffer)) \o wire = FieldBytes(p) \o st[k + 1]
        <3>1. Len(<<x, y>>) <= Len(buffer)
            BY <1>10, <2>6
        <3>2. /\ SubSeq(buffer, 1, Len(<<x, y>>)) = <<x, y>>
              /\ SubSeq(buffer, Len(<<x, y>>) + 1, Len(buffer)) \o wire = FieldBytes(p) \o st[k + 1]
            BY <2>1, <2>6, <2>8, <2>9, <3>1, CutStream
        <3> QED  BY <2>6, <3>2
    <2>11. b = x /\ c = y
        <3>1. SubSeq(buffer, 1, 2)[1] = buffer[1] /\ SubSeq(buffer, 1, 2)[2] = buffer[2]
            BY <1>10, <2>1
        <3>2. <<x, y>>[1] = x /\ <<x, y>>[2] = y
            OBVIOUS
        <3>3. b = <<x, y>>[1] /\ c = <<x, y>>[2]
            BY <1>10, <2>10, <3>1, Zenon
        <3> QED  BY <3>2, <3>3
    <2>12. m = n
        BY <1>10, <2>4, <2>5, <2>11
    <2>13. reader' = Body(n - 2)
        BY <1>10, <2>5, <2>12
    <2>14. ReaderAt(k, st)'
        <3>1. buffer' \o wire' = FieldBytes(p) \o st[k + 1]
            BY <1>1, <1>10, <2>10 DEF Drop
        <3> QED  BY <1>1, <1>3, <1>7, <2>2, <2>3, <2>5, <2>13, <3>1 DEF ReaderAt
    <2>15. Framed(st, k)'
        BY <1>1, <1>6 DEF Framed
    <2>16. Reading(k)'
        BY <1>7, <2>13, <2>14, <2>15 DEF Reading
    <2>17. Taken' = SubSeq(sent', 1, k)
        BY <1>7, <1>8, <2>13
    <2> QED  BY <1>1, <1>3, <2>16, <2>17 DEF InStep
<1> QED  BY <1>9, <1>10, ReadIntCases

\* The body that is read is that of the next packet, and so are its fields.
LEMMA ReadStringStream == ASSUME Types, StreamInv, ReadString PROVE StreamInv'
<1> SUFFICES ASSUME Fits' PROVE InStep'
    BY DEF StreamInv
<1>1. UNCHANGED <<wire, link, dataStream, handler, sent, handled>> /\ reader.at = "body"
    BY DEF ReadString
<1>2. Fits
    BY <1>1 DEF Fits
<1>3. PICK N \in Nat : N = Len(sent)
    BY SentTypes
<1>4. PICK k \in 0..N : Taken = SubSeq(sent, 1, k) /\ Reading(k)
    BY <1>2, <1>3 DEF StreamInv, InStep
<1>5. reader # Ended /\ InHand = <<>>
    BY <1>1 DEF Ended, InHand
<1>6. PICK st : Framed(st, k) /\ ReaderAt(k, st)
    BY <1>4, <1>5 DEF Reading
<1>7. k < N
    BY <1>1, <1>3, <1>6 DEF ReaderAt
<1>8. CASE Never(reader.nlen) /\ reader' = Ended /\ UNCHANGED buffer
    <2>1. Reading(k)'
        BY <1>1, <1>8 DEF Reading, Never
    <2>2. Taken' = Taken
        <3>1. InHand' = <<>>
            BY <1>8 DEF InHand, Ended
        <3> QED  BY <1>1, <1>5, <3>1 DEF Taken
    <2> QED  BY <1>1, <1>3, <1>4, <2>1, <2>2 DEF InStep
<1>9. CASE /\ Has(reader.nlen) /\ Drop(reader.nlen)
           /\ reader' = Queue(Split(SubSeq(buffer, 1, reader.nlen)))
    <2>1. PICK p : p = sent[k + 1] /\ p \in Seq(Text)
        <3>1. k + 1 \in 1..N
            BY <1>7
        <3>2. sent[k + 1] \in Seq(Text)
            BY <1>3, <3>1, SentTypes
        <3> QED  BY <3>2
    <2>2. PICK body \in Seq(Byte) : body = FieldBytes(p)
        BY <2>1, NewIsFramed
    <2>3. PICK n \in Nat : n = reader.nlen /\ n = Len(body)
        BY <1>1, <1>3, <1>6, <2>1, <2>2, LenProperties DEF ReaderAt
    <2>4. buffer \o wire = body \o st[k + 1]
        BY <1>1, <1>6, <2>1, <2>2 DEF ReaderAt
    <2>5. st[k + 1] \in Seq(Byte)
        BY <1>3, <1>6, <1>7 DEF Framed
    <2>6. SubSeq(buffer, 1, n) = body /\ SubSeq(buffer, n + 1, Len(buffer)) \o wire = st[k + 1]
        <3>1. buffer \in Seq(Byte) /\ wire \in Seq(Byte) /\ Len(body) <= Len(buffer)
            BY <1>9, <2>3 DEF Types, Has
        <3>2. /\ SubSeq(buffer, 1, Len(body)) = body
              /\ SubSeq(buffer, Len(body) + 1, Len(buffer)) \o wire = st[k + 1]
            BY <2>4, <2>5, <3>1, CutStream
        <3> QED  BY <2>3, <3>2
    <2>7. Split(body) = p
        BY <2>1, <2>2, ReadIsWritten
    <2>8. reader' = Queue(p) /\ buffer' \o wire' = st[k + 1]
        BY <1>1, <1>9, <2>3, <2>6, <2>7 DEF Drop
    <2>9. reader'.at = "queue" /\ reader'.packet = p /\ reader' # Ended
        BY <2>8 DEF Queue, Ended
    <2> DEFINE tt == [i \in (k + 1)..N |-> st[i]]
    <2>10. /\ tt \in [(k + 1)..N -> Seq(Byte)] /\ \A i \in (k + 1)..N : tt[i] = st[i]
        BY <1>3, <1>6 DEF Framed
    <2> HIDE DEF tt
    <2>11. Framed(tt, k + 1)'
        <3>1. tt[N] = <<>>
            BY <1>3, <1>6, <1>7, <2>10 DEF Framed
        <3>2. ASSUME NEW i \in ((k + 1) + 1)..N
              PROVE  tt[i - 1] = New(sent[i]) \o tt[i]
            <4>1. i \in (k + 1)..N /\ i - 1 \in (k + 1)..N
                OBVIOUS
            <4>2. st[i - 1] = New(sent[i]) \o st[i]
                BY <1>3, <1>6, <4>1 DEF Framed
            <4> QED  BY <2>10, <4>1, <4>2
        <3> QED  BY <1>1, <1>3, <2>10, <3>1, <3>2 DEF Framed
    <2>12. ReaderAt(k + 1, tt)'
        <3>1. tt[k + 1] = st[k + 1]
            BY <1>7, <2>10
        <3> QED  BY <2>8, <2>9, <3>1 DEF ReaderAt
    <2>13. Reading(k + 1)'
        BY <2>9, <2>11, <2>12 DEF Reading
    <2>14. Taken' = SubSeq(sent, 1, k + 1)
        <3>1. (handled \o dataStream) \o <<p>> = SubSeq(sent, 1, k + 1)
            BY <1>3, <1>4, <1>5, <1>7, <2>1, TakenGrows
        <3>2. InHand' = <<p>>
            BY <2>9 DEF InHand
        <3> QED  BY <1>1, <3>1, <3>2 DEF Taken
    <2> QED  BY <1>1, <1>3, <1>7, <2>13, <2>14 DEF InStep
<1> QED  BY <1>8, <1>9 DEF ReadString

\* The packet in hand goes to the end of the queue.
LEMMA EnqueueStream == ASSUME Types, StreamInv, Enqueue PROVE StreamInv'
<1> SUFFICES ASSUME Fits' PROVE InStep'
    BY DEF StreamInv
<1>1. /\ UNCHANGED <<wire, buffer, link, handler, sent, handled>>
      /\ reader.at = "queue" /\ reader' = Length
    BY DEF Enqueue
<1>2. Fits
    BY <1>1 DEF Fits
<1>3. PICK k \in 0..Len(sent) : Taken = SubSeq(sent, 1, k) /\ Reading(k)
    BY <1>2 DEF StreamInv, InStep
<1>4. reader # Ended /\ reader' # Ended /\ reader'.at = "length"
    BY <1>1 DEF Ended, Length
<1>5. PICK st : Framed(st, k) /\ buffer \o wire = st[k]
    BY <1>1, <1>3, <1>4 DEF Reading, ReaderAt
<1>6. Framed(st, k)' /\ ReaderAt(k, st)'
    BY <1>1, <1>4, <1>5 DEF Framed, ReaderAt
<1>7. Reading(k)'
    BY <1>4, <1>6 DEF Reading
<1>8. Taken' = Taken
    <2>1. PICK p \in Fields : reader.packet = p
        BY <1>1 DEF Types, Length, Ended, Queue, Body
    <2>2. /\ InHand = <<p>> /\ InHand' = <<>> /\ dataStream' = Append(dataStream, p)
        BY <1>1, <1>4, <2>1 DEF InHand, Enqueue
    <2>3. /\ handled \in Seq(Fields) /\ dataStream \in Seq(Fields) /\ <<p>> \in Seq(Fields)
          /\ dataStream' \in Seq(Fields)
        BY <2>2, AppendProperties DEF Types
    <2>4. handled \o dataStream' \in Seq(Fields)
        BY <2>3, ConcatProperties
    <2>5. Taken' = handled \o dataStream'
        BY <1>1, <2>2, <2>4, ConcatEmptySeq DEF Taken
    <2>6. dataStream' = dataStream \o <<p>>
        BY <2>2, <2>3, AppendIsConcat
    <2>7. (handled \o dataStream) \o <<p>> = handled \o (dataStream \o <<p>>)
        BY <2>3, ConcatAssociative, SMTT(30)
    <2> QED  BY <2>2, <2>5, <2>6, <2>7 DEF Taken
<1> QED  BY <1>1, <1>3, <1>7, <1>8 DEF InStep

LEMMA InHandType == ASSUME Types PROVE InHand \in Seq(Fields)
<1>1. CASE reader.at = "queue"
    <2>1. PICK p \in Fields : reader.packet = p
        BY <1>1 DEF Types, Length, Ended, Queue, Body
    <2>2. <<p>> \in Seq(Fields)
        OBVIOUS
    <2> QED  BY <1>1, <2>1, <2>2 DEF InHand
<1>2. CASE reader.at # "queue"
    BY <1>2, EmptySeq DEF InHand
<1> QED  BY <1>1, <1>2

\* The handler takes the packets in the order of the queue, and none of those that
\* were sent has no command.
LEMMA HandleStream == ASSUME Types, StreamInv, Handle PROVE StreamInv'
<1>1. /\ handled \in Seq(Fields) /\ InHand \in Seq(Fields)
      /\ dataStream \in Seq(Fields) /\ dataStream # <<>>
    BY InHandType DEF Types, Handle
<1>2. PICK h \in Fields, ds \in Seq(Fields) : /\ h = Head(dataStream) /\ ds = Tail(dataStream)
                                              /\ dataStream = <<h>> \o ds
    BY <1>1, HeadTailProperties, HeadThenTail
<1>3. <<h>> \in Seq(Fields)
    BY <1>2
<1>4. handled \o dataStream = Append(handled, h) \o ds
    <2>1. (handled \o <<h>>) \o ds = handled \o (<<h>> \o ds)
        BY <1>1, <1>2, <1>3, ConcatAssociative
    <2>2. handled \o <<h>> = Append(handled, h)
        BY <1>1, <1>2, AppendIsConcat
    <2> QED  BY <1>2, <2>1, <2>2
<1>5. ASSUME Fits PROVE h # <<>>
    <2>1. PICK k \in 0..Len(sent) : Taken = SubSeq(sent, 1, k)
        BY <1>5 DEF StreamInv, InStep
    <2>2. PICK n \in Nat : n = Len(handled)
        BY <1>1, LenProperties
    <2>3. /\ Len(dataStream) \in Nat /\ Len(dataStream) > 0 /\ Len(InHand) \in Nat
          /\ dataStream[1] = h
        BY <1>1, <1>2, LenProperties, EmptySeq, HeadTailProperties
    <2>4. /\ handled \o dataStream \in Seq(Fields)
          /\ Len(handled \o dataStream) = n + Len(dataStream)
          /\ (handled \o dataStream)[n + 1] = h
        BY <1>1, <2>2, <2>3, ConcatProperties
    <2>5. /\ Len(Taken) = n + Len(dataStream) + Len(InHand)
          /\ Taken[n + 1] = h
        BY <1>1, <2>2, <2>3, <2>4, ConcatProperties DEF Taken
    <2>6. Len(sent) \in Nat /\ \A i \in 1..k : sent[i] \in Seq(Text)
        BY SentTypes
    <2>7. k \in Nat /\ Len(SubSeq(sent, 1, k)) = k /\ \A i \in 1..k : SubSeq(sent, 1, k)[i] = sent[i]
        BY <2>1, <2>6, SubSeqProperties
    <2>8. n + 1 \in 1..k
        BY <2>1, <2>2, <2>3, <2>5, <2>7
    <2>9. h = sent[n + 1]
        BY <2>1, <2>5, <2>7, <2>8
    <2>10. n + 1 \in DOMAIN sent
        BY <2>1, <2>6, <2>8, SentTypes, LenProperties
    <2> QED  BY <1>5, <2>9, <2>10 DEF Fits
<1>6. ASSUME Fits PROVE Taken' = Taken
    <2>1. handled' = Append(handled, h) /\ dataStream' = ds
        BY <1>2, <1>5, <1>6 DEF Handle
    <2> QED  BY <1>4, <2>1 DEF Taken, InHand, Handle
<1>7. ASSUME Fits PROVE link' = link
    BY <1>2, <1>5, <1>7 DEF Handle
<1> SUFFICES ASSUME Fits PROVE StreamInv'
    BY DEF StreamInv, Fits, Handle
<1> QED  BY <1>6, <1>7, StreamKept DEF Handle

LEMMA InitStream == Init => StreamInv
<1> SUFFICES ASSUME Init PROVE InStep
    BY DEF StreamInv
<1> DEFINE st == [i \in 0..0 |-> <<>>]
<1>1. Framed(st, 0)
    BY EmptySeq DEF Init, Framed
<1>2. reader # Ended /\ reader.at # "body" /\ InHand = <<>>
    BY DEF Init, Length, Ended, InHand
<1>3. ReaderAt(0, st)
    BY <1>2, EmptySeq, ConcatEmptySeq DEF Init, ReaderAt
<1> HIDE DEF st
<1>4. Reading(0)
    BY <1>1, <1>2, <1>3 DEF Reading
<1>5. Taken = <<>>
    BY <1>2, EmptySeq, ConcatEmptySeq DEF Init, Taken
<1>6. SubSeq(sent, 1, 0) = <<>> /\ 0 \in 0..Len(sent)
    BY SubSeqEmpty, EmptySeq DEF Init
<1> QED  BY <1>4, <1>5, <1>6 DEF InStep

LEMMA NextStream == Types /\ StreamInv /\ [Next]_vars => StreamInv'
<1> SUFFICES ASSUME Types, StreamInv, [Next]_vars PROVE StreamInv'
    OBVIOUS
<1>1. CASE PeerCloses \/ Disconnect \/ Finish \/ UNCHANGED vars
    BY <1>1, StreamKept DEF Taken, InHand, PeerCloses, Disconnect, Finish, vars
<1> QED
    BY <1>1, SendStream, GarbageStream, ArriveStream, ReadIntStream, ReadStringStream,
       EnqueueStream, HandleStream
    DEF Next

LEMMA StreamInvariant == Spec => []StreamInv
BY InitStream, NextStream, TypesInvariant, PTL DEF Spec

\* What the handler has had, what waits for it and what the reader has in hand are
\* the first packets that were sent, in that order and with the fields they were
\* sent with: wherever TCP cuts the stream, however many packets wait, and whenever
\* an end closes the connection (New and Read of packet.go, and readingLoop).
THEOREM InOrderAndWhole == Spec => []InOrder
<1>1. ASSUME Types, StreamInv, Fits PROVE IsPrefix(Taken, sent)
    <2>1. PICK k \in 0..Len(sent) : Taken = SubSeq(sent, 1, k)
        BY <1>1 DEF StreamInv, InStep
    <2>2. Len(sent) \in Nat /\ \A i \in 1..k : sent[i] \in Seq(Text)
        BY <1>1, SentTypes
    <2>3. Len(Taken) = k /\ k <= Len(sent) /\ Taken \in Seq(Seq(Text))
        BY <2>1, <2>2, SubSeqProperties
    <2>4. SubSeq(Taken, 1, k) = Taken
        BY <2>3, SubSeqFull
    <2> QED  BY <2>1, <2>3, <2>4 DEF IsPrefix
<1>2. Types /\ StreamInv => InOrder
    BY <1>1 DEF InOrder, Taken, InHand
<1> QED  BY <1>2, TypesInvariant, StreamInvariant, PTL

\* The reader ends only when an end has closed the connection: the check of the
\* length in Read refuses nobody who sends packets that fit into their length.
THEOREM NobodyIsRefused == Spec => []NobodyIsCutOff
<1>1. StreamInv => NobodyIsCutOff
    BY DEF StreamInv, InStep, Reading, NobodyIsCutOff
<1> QED  BY <1>1, StreamInvariant, PTL
=============================================================================
