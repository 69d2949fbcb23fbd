----------------------------- MODULE HdlcLlLemmas -----------------------------
(***************************************************************************)
(* What the operators of HdlcLl keep, for every alphabet, checksum and     *)
(* buffer size: the shape of a transmitter that sends frames of a set P,   *)
(* the shape of a receiver, and where a receiver stands that has seen all  *)
(* that a transmitter has written of its frame.                            *)
(***************************************************************************)
EXTENDS HdlcEncoder, SequenceTheorems, FiniteSets, FiniteSetTheorems, TLAPS

(* A set of frames to send.                                                *)
Frames(P) == \A data \in P \cup {<<>>} : Sendable(data)

(* A transmitter inside a frame has one, is not past its end, and has sent *)
(* an escape only for a byte that needs it.                                *)
GoodTx(P) ==
    {t \in Tx :
        /\ t.data \in P \cup {<<>>}
        /\ \A i \in DOMAIN t.sent : t.sent[i] \in P \ {<<>>}
        /\ t.state = "Start" => ~ t.escape
        /\ t.state = "Data" =>
               /\ TxBusy(t)
               /\ t.pos <= Len(Body(t))
               /\ t.escape => t.pos < Len(Body(t)) /\ NextByte(t) \in Special}

(* A receiver between two calls.                                           *)
GoodRx == {r \in Rx : Len(r.buf) <= PhysMtu /\ r.frames = <<>>}

(* What goes on the line for a byte, after an escape if it needs one.      *)
OnLine(byte) == IF byte \in Special THEN Toggle(byte) ELSE byte

(* A receiver that has been given the opening flag and the first n bytes   *)
(* of a frame with this body, as far as its buffer goes, and then an       *)
(* escape or not.                                                          *)
InStep(r, body, n, escape) ==
    /\ r.state = "Data" /\ r.escape = escape
    /\ Len(r.buf) = IF n <= PhysMtu THEN n ELSE PhysMtu
    /\ \A i \in DOMAIN r.buf : r.buf[i] = body[i]

(* A receiver for which the next flag opens a frame.                       *)
Ready(r) == r.state = "Start" \/ r.buf = <<>>

-------------------------------------------------------------------------------

LEMMA NoBytes == <<>> \in Seq(Byte) /\ <<>> \in Seq(Seq(Byte)) /\ 0 \in Nat
OBVIOUS

LEMMA BodyType ==
    ASSUME NEW P, Frames(P), NEW t \in GoodTx(P)
    PROVE  /\ Body(t) \in Seq(Byte)
           /\ Len(Body(t)) = Len(t.data) + CrcSize
           /\ CrcSize \in Nat
           /\ t.pos < Len(Body(t)) => NextByte(t) \in Byte
<1>1. Sendable(t.data) /\ Sendable(<<>>)
    BY DEF Frames, GoodTx
<1>2. /\ t.data \in Seq(Byte) /\ Crc(t.data) \in Seq(Byte)
      /\ Len(Crc(t.data)) = CrcSize
      /\ CrcSize \in Nat /\ t.pos \in Nat
    BY <1>1 DEF Sendable, CrcSize, GoodTx, Tx
<1>3. Body(t) \in Seq(Byte) /\ Len(Body(t)) = Len(t.data) + Len(Crc(t.data))
    BY <1>2, ConcatProperties DEF Body
<1>4. t.pos < Len(Body(t)) => t.pos + 1 \in 1 .. Len(Body(t))
    BY <1>2, <1>3
<1> QED BY <1>2, <1>3, <1>4, ElementOfSeq DEF NextByte

(* Every byte that run_tx writes is one.                                   *)
LEMMA TxOutType ==
    ASSUME NEW P, Frames(P), NEW t \in GoodTx(P)
    PROVE  TxOut(t) \in Byte
<1>1. Flag \in Byte /\ Escape \in Byte /\ \A b \in Byte : Toggle(b) \in Byte
    BY ByteAssumption DEF Special
<1>2. t.state = "Data" /\ t.pos # Len(Body(t)) => t.pos < Len(Body(t))
    BY BodyType DEF GoodTx, Tx
<1>3. t.state \in {"Start", "Data"}
    BY DEF GoodTx, Tx
<1> QED BY <1>1, <1>2, <1>3, BodyType DEF TxOut

LEMMA TxStepGood ==
    ASSUME NEW P, Frames(P), NEW t \in GoodTx(P), TxBusy(t)
    PROVE  TxStep(t) \in GoodTx(P)
<1>1. t \in Tx /\ t.data \in P /\ t.data \in Seq(Byte)
    BY DEF GoodTx, TxBusy, Tx
<1>2. CASE t.state = "Start"
    <2>1. TxStep(t) = [t EXCEPT !.state = "Data", !.pos = 0, !.escape = FALSE]
        BY <1>2 DEF TxStep
    <2>2. Len(Body(TxStep(t))) \in Nat
        BY <1>1, <2>1, BodyType DEF Body, Tx
    <2>3. TxStep(t) \in Tx
        BY <1>1, <2>1, NoBytes DEF Tx
    <2>4. /\ TxStep(t).state = "Data" /\ TxStep(t).data = t.data
          /\ TxStep(t).pos = 0 /\ ~ TxStep(t).escape /\ TxStep(t).sent = t.sent
        BY <1>1, <2>1 DEF Tx
    <2> QED BY <1>1, <2>2, <2>3, <2>4 DEF GoodTx, TxBusy
<1>3. CASE t.state = "Data" /\ t.pos = Len(Body(t))
    <2>1. TxStep(t) = [t EXCEPT !.state = "Start", !.escape = FALSE, !.data = <<>>,
                                !.sent = Append(@, t.data)]
        BY <1>3 DEF TxStep
    <2>2. Append(t.sent, t.data) \in Seq(Seq(Byte)) /\ <<>> \in Seq(Byte)
        BY <1>1 DEF Tx
    <2>3. TxStep(t) \in Tx
        BY <1>1, <2>1, <2>2 DEF Tx
    <2>4. /\ TxStep(t).state = "Start" /\ ~ TxStep(t).escape /\ TxStep(t).data = <<>>
          /\ TxStep(t).sent = Append(t.sent, t.data)
        BY <1>1, <2>1 DEF Tx
    <2>5. \A i \in DOMAIN t.sent : t.sent[i] \in P \ {<<>>}
        BY DEF GoodTx
    <2>6. t.data \in P \ {<<>>} /\ t.sent \in Seq(Seq(Byte))
        BY <1>1 DEF TxBusy, Tx
    <2>7. \A i \in DOMAIN Append(t.sent, t.data) : Append(t.sent, t.data)[i] \in P \ {<<>>}
        BY <2>5, <2>6
    <2> QED BY <2>3, <2>4, <2>7 DEF GoodTx
<1>4. CASE t.state = "Data" /\ t.pos < Len(Body(t)) /\ NextByte(t) \in Special /\ ~ t.escape
    <2>1. TxStep(t) = [t EXCEPT !.escape = TRUE]
        BY <1>1, <1>4 DEF TxStep, Tx
    <2>2. Body(TxStep(t)) = Body(t) /\ NextByte(TxStep(t)) = NextByte(t)
        BY <1>1, <2>1 DEF Body, NextByte, Tx
    <2> QED BY <1>1, <1>4, <2>1, <2>2 DEF GoodTx, Tx, TxBusy
<1>5. CASE t.state = "Data" /\ t.pos < Len(Body(t)) /\ ~ (NextByte(t) \in Special /\ ~ t.escape)
    <2>1. TxStep(t) = [t EXCEPT !.escape = FALSE, !.pos = @ + 1]
        BY <1>1, <1>5 DEF TxStep, Tx
    <2>2. Body(TxStep(t)) = Body(t)
        BY <1>1, <2>1 DEF Body, Tx
    <2>3. t.pos + 1 <= Len(Body(t)) /\ t.pos + 1 \in Nat
        BY <1>1, <1>5, BodyType DEF Tx
    <2> QED BY <1>1, <1>5, <2>1, <2>2, <2>3 DEF GoodTx, Tx, TxBusy
<1> QED BY <1>1, <1>2, <1>3, <1>4, <1>5, BodyType DEF GoodTx, Tx

LEMMA TxCallsGood ==
    ASSUME NEW P, Frames(P)
    PROVE  /\ NewTx \in GoodTx(P)
           /\ \A t \in GoodTx(P) : ResetTx(t) \in GoodTx(P) /\ GetTxSentFrame(t) \in GoodTx(P)
           /\ \A t \in GoodTx(P), data \in P : PutAccepts(t, data) => PutFrame(t, data) \in GoodTx(P)
<1>1. NewTx \in GoodTx(P)
    BY NoBytes DEF NewTx, GoodTx, Tx
<1>2. ASSUME NEW t \in GoodTx(P)
      PROVE  ResetTx(t) \in GoodTx(P) /\ GetTxSentFrame(t) \in GoodTx(P)
    <2>1. ResetTx(t) \in GoodTx(P)
        <3>1. ResetTx(t) \in Tx
            BY NoBytes DEF ResetTx, GoodTx, Tx
        <3>2. /\ ResetTx(t).state = "Start" /\ ~ ResetTx(t).escape /\ ResetTx(t).data = <<>>
              /\ ResetTx(t).sent = t.sent
            BY NoBytes DEF ResetTx, GoodTx, Tx
        <3>3. \A i \in DOMAIN t.sent : t.sent[i] \in P \ {<<>>}
            BY DEF GoodTx
        <3> QED BY <3>1, <3>2, <3>3 DEF GoodTx
    <2>2. GetTxSentFrame(t) = [t EXCEPT !.sent = IF t.sent = <<>> THEN t.sent ELSE Tail(t.sent)]
        BY DEF GetTxSentFrame
    <2>3. (IF t.sent = <<>> THEN t.sent ELSE Tail(t.sent)) \in Seq(Seq(Byte))
        BY DEF GoodTx, Tx
    <2>4. t.sent \in Seq(Seq(Byte)) /\ \A i \in DOMAIN t.sent : t.sent[i] \in P \ {<<>>}
        BY DEF GoodTx, Tx
    <2>5. t.sent # <<>> => \A i \in DOMAIN Tail(t.sent) : Tail(t.sent)[i] \in P \ {<<>>}
        <3>1. t.sent # <<>> => \A i \in DOMAIN Tail(t.sent) :
                  i + 1 \in DOMAIN t.sent /\ Tail(t.sent)[i] = t.sent[i + 1]
            BY <2>4, HeadTailProperties
        <3> QED BY <2>4, <3>1
    <2>6. GetTxSentFrame(t) \in GoodTx(P)
        BY <2>2, <2>3, <2>4, <2>5 DEF GoodTx, Tx, TxBusy, Body, NextByte
    <2> QED BY <2>1, <2>6
<1>3. ASSUME NEW t \in GoodTx(P), NEW data \in P, PutAccepts(t, data)
      PROVE  PutFrame(t, data) \in GoodTx(P)
    <2>1. CASE data = <<>>
        BY <2>1 DEF PutFrame
    <2>2. CASE data # <<>>
        <3>1. data \in Seq(Byte)
            BY DEF Frames, Sendable
        <3>2. ~ TxBusy(t) /\ PutFrame(t, data) = [t EXCEPT !.data = data, !.pos = 0]
            BY <1>3, <2>2 DEF PutAccepts, PutFrame
        <3>3. PutFrame(t, data) \in Tx
            <4>1. t \in Tx
                BY DEF GoodTx
            <4> QED BY <3>1, <3>2, <4>1, NoBytes DEF Tx
        <3>4. t.state = "Start" /\ ~ t.escape
            BY <3>2 DEF GoodTx, Tx
        <3>5. /\ PutFrame(t, data).state = "Start" /\ ~ PutFrame(t, data).escape
              /\ PutFrame(t, data).data = data /\ PutFrame(t, data).sent = t.sent
            BY <3>2, <3>4 DEF GoodTx, Tx
        <3>6. \A i \in DOMAIN t.sent : t.sent[i] \in P \ {<<>>}
            BY DEF GoodTx
        <3> QED BY <3>3, <3>5, <3>6 DEF GoodTx
    <2> QED BY <2>1, <2>2
<1> QED BY <1>1, <1>2, <1>3

-------------------------------------------------------------------------------
(* Induction up to n without an operator parameter: a set that holds 0 and *)
(* with every i < n also i + 1 holds n.  Otherwise u |-> u - 1 maps the    *)
(* numbers it lacks one-to-one into all of them but n.                     *)
LEMMA CountingUp ==
    ASSUME NEW n \in Nat, NEW T,
           0 \in T, \A i \in 0 .. n : i \in T /\ i # n => i + 1 \in T
    PROVE  n \in T
<1> SUFFICES ASSUME n \notin T PROVE FALSE
    OBVIOUS
<1> DEFINE U == (0 .. n) \ T
           f == [u \in U |-> u - 1]
<1>1. IsFiniteSet(U)
    <2>1. IsFiniteSet(0 .. n)
        BY FS_Interval
    <2>2. U \in SUBSET (0 .. n)
        OBVIOUS
    <2> QED BY <2>1, <2>2, FS_Subset
<1>2. n \in U
    OBVIOUS
<1>3. f \in [U -> U \ {n}]
    OBVIOUS
<1>4. /\ IsFiniteSet(U \ {n})
      /\ Cardinality(U \ {n}) = Cardinality(U) - 1
      /\ Cardinality(U) \in Nat
    <2> HIDE DEF U
    <2> QED BY <1>1, <1>2, FS_RemoveElement, FS_CardinalityType
<1>5. \E x, y \in U : x # y /\ f[x] = f[y]
    <2> HIDE DEF U, f
    <2> QED BY <1>1, <1>3, <1>4, FS_PigeonHole
<1> QED BY <1>5

(* FlattenSeq appends one sequence after the other.                        *)
LEMMA FlattenExists ==
    ASSUME NEW s \in Seq(Seq(Byte))
    PROVE  \E g \in [1 .. Len(s) -> Seq(Byte)] :
               g = [i \in 1 .. Len(s) |-> IF i = 1 THEN s[i] ELSE g[i - 1] \o s[i]]
<1> DEFINE N == Len(s)
           Prefix(m, g) == \A i \in 1 .. m : g[i] = IF i = 1 THEN s[i] ELSE g[i - 1] \o s[i]
           T == {m \in 0 .. N : \E g \in [1 .. m -> Seq(Byte)] : Prefix(m, g)}
<1>1. N \in Nat
    OBVIOUS
<1>2. 0 \in T
    <2> DEFINE none == [i \in 1 .. 0 |-> s[i]]
    <2>1. 1 .. 0 = {} /\ none \in [1 .. 0 -> Seq(Byte)] /\ Prefix(0, none)
        OBVIOUS
    <2> HIDE DEF none, N
    <2>2. \E g \in [1 .. 0 -> Seq(Byte)] : Prefix(0, g)
        BY <2>1
    <2>3. 0 \in 0 .. N
        BY <1>1
    <2> HIDE DEF Prefix
    <2> QED BY <2>2, <2>3
<1>3. \A m \in 0 .. N : m \in T /\ m # N => m + 1 \in T
    <2> SUFFICES ASSUME NEW m \in 0 .. N, m \in T, m # N PROVE m + 1 \in T
        OBVIOUS
    <2>1. PICK g \in [1 .. m -> Seq(Byte)] : Prefix(m, g)
        OBVIOUS
    <2> DEFINE last == IF m = 0 THEN s[m + 1] ELSE g[m] \o s[m + 1]
               h == [i \in 1 .. m + 1 |-> IF i = m + 1 THEN last ELSE g[i]]
    <2>2. m \in Nat /\ m + 1 \in 1 .. N /\ m + 1 \in 0 .. N
        BY <1>1
    <2>3. s[m + 1] \in Seq(Byte)
        BY <2>2
    <2>4. m # 0 => g[m] \in Seq(Byte)
        BY <2>2
    <2>5. last \in Seq(Byte)
        BY <2>3, <2>4
    <2>6. h \in [1 .. m + 1 -> Seq(Byte)]
        BY <2>2, <2>5
    <2>7. ASSUME NEW i \in 1 .. m + 1
          PROVE  h[i] = IF i = 1 THEN s[i] ELSE h[i - 1] \o s[i]
        <3>1. CASE i = m + 1
            BY <2>2, <3>1
        <3>2. CASE i # m + 1
            <4>1. i \in 1 .. m /\ h[i] = g[i] /\ (i # 1 => h[i - 1] = g[i - 1])
                BY <2>2, <3>2
            <4> QED BY <2>1, <4>1
        <3> QED BY <3>1, <3>2
    <2> HIDE DEF h
    <2> QED BY <2>2, <2>6, <2>7
<1>4. N \in T
    <2> HIDE DEF T, N
    <2> QED BY <1>1, <1>2, <1>3, CountingUp
<1>5. PICK g \in [1 .. N -> Seq(Byte)] : Prefix(N, g)
    BY <1>4
<1>6. g = [i \in 1 .. N |-> IF i = 1 THEN s[i] ELSE g[i - 1] \o s[i]]
    BY <1>1, <1>5
<1> QED BY <1>6

LEMMA FlattenLoop ==
    ASSUME NEW s \in Seq(Seq(Byte))
    PROVE  \E g : /\ \A i \in 1 .. Len(s) : g[i] = IF i = 1 THEN s[i] ELSE g[i - 1] \o s[i]
                  /\ Len(s) # 0 => FlattenSeq(s) = g[Len(s)]
<1> DEFINE f == CHOOSE g : g = [i \in 1 .. Len(s) |-> IF i = 1 THEN s[i] ELSE g[i - 1] \o s[i]]
<1>1. f = [i \in 1 .. Len(s) |-> IF i = 1 THEN s[i] ELSE f[i - 1] \o s[i]]
    BY FlattenExists
<1>2. Len(s) # 0 => FlattenSeq(s) = f[Len(s)]
    BY DEF FlattenSeq
<1> HIDE DEF f
<1>3. \A i \in 1 .. Len(s) : f[i] = IF i = 1 THEN s[i] ELSE f[i - 1] \o s[i]
    BY <1>1
<1> QED BY <1>2, <1>3

LEMMA FlattenAppend ==
    ASSUME NEW s \in Seq(Seq(Byte)), NEW e \in Seq(Byte)
    PROVE  /\ FlattenSeq(s) \in Seq(Byte)
           /\ FlattenSeq(Append(s, e)) = FlattenSeq(s) \o e
<1> DEFINE N == Len(s)
           t == Append(s, e)
<1>1. /\ N \in Nat /\ t \in Seq(Seq(Byte)) /\ Len(t) = N + 1 /\ t[N + 1] = e
      /\ \A i \in 1 .. N : t[i] = s[i] /\ s[i] \in Seq(Byte)
    OBVIOUS
<1>2. PICK f : /\ \A i \in 1 .. N : f[i] = IF i = 1 THEN s[i] ELSE f[i - 1] \o s[i]
               /\ N # 0 => FlattenSeq(s) = f[N]
    BY FlattenLoop
<1> HIDE DEF t
<1>3. PICK h : /\ \A i \in 1 .. N + 1 : h[i] = IF i = 1 THEN t[i] ELSE h[i - 1] \o t[i]
               /\ FlattenSeq(t) = h[N + 1]
    <2>1. PICK h : /\ \A i \in 1 .. Len(t) : h[i] = IF i = 1 THEN t[i] ELSE h[i - 1] \o t[i]
                   /\ Len(t) # 0 => FlattenSeq(t) = h[Len(t)]
        BY <1>1, FlattenLoop
    <2>2. FlattenSeq(t) = h[N + 1]
        BY <1>1, <2>1
    <2> QED BY <1>1, <2>1, <2>2
<1> DEFINE T == {m \in 0 .. N : \A i \in 1 .. m : f[i] = h[i] /\ f[i] \in Seq(Byte)}
<1>4. 0 \in T
    BY <1>1
<1>5. \A m \in 0 .. N : m \in T /\ m # N => m + 1 \in T
    <2> SUFFICES ASSUME NEW m \in 0 .. N, m \in T, m # N PROVE m + 1 \in T
        OBVIOUS
    <2>1. m \in Nat /\ m + 1 \in 1 .. N /\ m + 1 \in 1 .. N + 1 /\ m + 1 \in 0 .. N
        BY <1>1
    <2>2. /\ f[m + 1] = IF m + 1 = 1 THEN s[m + 1] ELSE f[m] \o s[m + 1]
          /\ h[m + 1] = IF m + 1 = 1 THEN t[m + 1] ELSE h[m] \o t[m + 1]
        <3>1. m + 1 - 1 = m
            OBVIOUS
        <3>2. f[m + 1] = IF m + 1 = 1 THEN s[m + 1] ELSE f[m] \o s[m + 1]
            BY <1>2, <2>1, <3>1
        <3>3. h[m + 1] = IF m + 1 = 1 THEN t[m + 1] ELSE h[m] \o t[m + 1]
            <4> HIDE DEF N
            <4> QED BY <1>3, <2>1, <3>1
        <3> QED BY <3>2, <3>3
    <2>3. m # 0 => f[m] = h[m] /\ f[m] \in Seq(Byte)
        BY <2>1, SMTT(30)
    <2>4. f[m + 1] = h[m + 1] /\ f[m + 1] \in Seq(Byte)
        BY <1>1, <2>1, <2>2, <2>3
    <2> QED BY <2>1, <2>4
<1>6. N \in T
    <2> HIDE DEF T, N
    <2> QED BY <1>1, <1>4, <1>5, CountingUp
<1>7. CASE N = 0
    <2>1. s = <<>> /\ FlattenSeq(s) = <<>>
        BY <1>7, EmptySeq DEF FlattenSeq
    <2>2. h[N + 1] = e
        BY <1>1, <1>3, <1>7
    <2> QED BY <1>3, <2>1, <2>2, ConcatEmptySeq, NoBytes DEF t
<1>8. CASE N # 0
    <2>1. f[N] = h[N] /\ f[N] \in Seq(Byte) /\ N + 1 # 1 /\ N + 1 \in 1 .. N + 1
        <3>1. N \in 1 .. N /\ N + 1 # 1 /\ N + 1 \in 1 .. N + 1
            <4> HIDE DEF N
            <4> QED BY <1>1, <1>8
        <3>2. \A i \in 1 .. N : f[i] = h[i] /\ f[i] \in Seq(Byte)
            BY <1>6
        <3> HIDE DEF N, T
        <3> QED BY <3>1, <3>2
    <2>2. h[N + 1] = h[N] \o e
        <3> DEFINE M == N + 1
        <3>1. M \in 1 .. N + 1 /\ M # 1 /\ M - 1 = N
            BY <1>1, <2>1
        <3>2. \A i \in 1 .. N + 1 : h[i] = IF i = 1 THEN t[i] ELSE h[i - 1] \o t[i]
            BY <1>3
        <3>3. h[M] = h[N] \o t[M]
            <4> HIDE DEF M, N, T
            <4> QED BY <3>1, <3>2
        <3> QED BY <1>1, <3>3
    <2> QED BY <1>2, <1>3, <1>8, <2>1, <2>2 DEF t
<1> QED BY <1>7, <1>8

(* Stuffing goes byte by byte.                                             *)
LEMMA StuffedType == \A b \in Byte : Stuffed(b) \in Seq(Byte)
BY ByteAssumption DEF Stuffed, Special

LEMMA StuffedNext ==
    ASSUME NEW s \in Seq(Byte), NEW k \in Nat, k < Len(s)
    PROVE  /\ StuffedAll(SubSeq(s, 1, k)) \in Seq(Byte)
           /\ StuffedAll(SubSeq(s, 1, k + 1))
                  = StuffedAll(SubSeq(s, 1, k)) \o Stuffed(s[k + 1])
<1> DEFINE u == SubSeq(s, 1, k)
           v == SubSeq(s, 1, k + 1)
           U == [i \in DOMAIN u |-> Stuffed(u[i])]
           V == [i \in DOMAIN v |-> Stuffed(v[i])]
<1>1. /\ Len(u) = k /\ DOMAIN u = 1 .. k /\ \A i \in 1 .. k : u[i] = s[i]
      /\ Len(v) = k + 1 /\ DOMAIN v = 1 .. k + 1 /\ \A i \in 1 .. k + 1 : v[i] = s[i]
      /\ \A i \in 1 .. k + 1 : s[i] \in Byte
    OBVIOUS
<1> HIDE DEF u, v
<1>2. U \in Seq(Seq(Byte)) /\ V \in Seq(Seq(Byte)) /\ Len(U) = k /\ Len(V) = k + 1
    <2>1. ASSUME NEW i \in 1 .. k PROVE Stuffed(u[i]) \in Seq(Byte)
        <3>1. u[i] \in Byte
            BY <1>1
        <3> QED BY <3>1, StuffedType
    <2>2. ASSUME NEW i \in 1 .. k + 1 PROVE Stuffed(v[i]) \in Seq(Byte)
        <3>1. v[i] \in Byte
            BY <1>1
        <3> QED BY <3>1, StuffedType
    <2>3. U = [i \in 1 .. k |-> Stuffed(u[i])] /\ V = [i \in 1 .. k + 1 |-> Stuffed(v[i])]
        BY <1>1
    <2> HIDE DEF U, V
    <2>4. U \in Seq(Seq(Byte)) /\ Len(U) = k
        BY <2>1, <2>3, SMTT(30)
    <2>5. V \in Seq(Seq(Byte)) /\ Len(V) = k + 1
        BY <2>2, <2>3
    <2> QED BY <2>4, <2>5
<1>3. Stuffed(s[k + 1]) \in Seq(Byte)
    BY <1>1, StuffedType
<1>4. ASSUME NEW i \in 1 .. k + 1 PROVE V[i] = Append(U, Stuffed(s[k + 1]))[i]
    <2>1. CASE i = k + 1
        BY <1>1, <1>2, <1>3, <2>1
    <2>2. CASE i # k + 1
        <3>1. i \in 1 .. k /\ U[i] = Stuffed(s[i]) /\ V[i] = Stuffed(s[i])
            BY <1>1, <2>2
        <3> HIDE DEF U, V
        <3> QED BY <1>2, <1>3, <3>1
    <2> QED BY <2>1, <2>2
<1>5. V = Append(U, Stuffed(s[k + 1]))
    <2> HIDE DEF U, V
    <2> QED BY <1>2, <1>3, <1>4
<1> QED BY <1>2, <1>3, <1>5, FlattenAppend DEF StuffedAll, u, v

LEMMA StuffedNone == StuffedAll(<<>>) = <<>>
<1>1. [i \in DOMAIN <<>> |-> Stuffed(<<>>[i])] = <<>>
    OBVIOUS
<1> QED BY <1>1 DEF StuffedAll, FlattenSeq

-------------------------------------------------------------------------------

(* The three kinds of bytes on the line are told apart.                    *)
LEMMA OnLineByte ==
    ASSUME NEW b \in Byte
    PROVE  /\ OnLine(b) \in Byte \ Special
           /\ (IF b \in Special THEN Toggle(OnLine(b)) ELSE OnLine(b)) = b
           /\ Flag \in Byte /\ Escape \in Byte /\ Flag # Escape
BY ByteAssumption DEF OnLine, Special

LEMMA ReceiverCalls ==
    /\ NewRx \in GoodRx /\ NewRx.state = "Start"
    /\ \A r \in GoodRx : /\ ResetRx(r) \in GoodRx
                         /\ ResetRx(r).state = "Start"
<1>1. NewRx \in GoodRx /\ NewRx.state = "Start"
    BY NoBytes, MtuAssumption DEF NewRx, GoodRx, Rx
<1>2. ASSUME NEW r \in GoodRx
      PROVE  ResetRx(r) \in GoodRx /\ ResetRx(r).state = "Start"
    <2>1. r \in Rx
        BY DEF GoodRx
    <2>2. ResetRx(r) \in Rx /\ ResetRx(r).state = "Start" /\ ResetRx(r).buf = <<>>
        BY <2>1, NoBytes DEF ResetRx, Rx
    <2>3. ResetRx(r).frames = <<>>
        BY <2>1 DEF ResetRx, GoodRx, Rx
    <2> QED BY <2>2, <2>3, MtuAssumption DEF GoodRx
<1> QED BY <1>1, <1>2

(* A byte that is kept.                                                    *)
LEMMA KeepByteGood ==
    ASSUME NEW r \in GoodRx, NEW byte \in Byte
    PROVE  /\ KeepByte(r, byte) \in GoodRx
           /\ KeepByte(r, byte).state = r.state /\ ~ KeepByte(r, byte).escape
           /\ KeepByte(r, byte).buf =
                  IF Len(r.buf) < PhysMtu
                  THEN Append(r.buf, IF r.escape THEN Toggle(byte) ELSE byte)
                  ELSE r.buf
<1> DEFINE kept == IF r.escape THEN Toggle(byte) ELSE byte
           after == IF Len(r.buf) < PhysMtu THEN Append(r.buf, kept) ELSE r.buf
<1>1. r \in Rx /\ r.buf \in Seq(Byte) /\ Len(r.buf) <= PhysMtu /\ r.frames = <<>>
    BY DEF GoodRx, Rx
<1>2. kept \in Byte
    BY ByteAssumption
<1>3. after \in Seq(Byte) /\ Len(after) <= PhysMtu
    BY <1>1, <1>2, MtuAssumption
<1>4. KeepByte(r, byte) = [r EXCEPT !.escape = FALSE, !.buf = after]
    BY DEF KeepByte
<1> HIDE DEF after
<1>5. /\ KeepByte(r, byte) \in Rx
      /\ KeepByte(r, byte).state = r.state /\ ~ KeepByte(r, byte).escape
      /\ KeepByte(r, byte).buf = after /\ KeepByte(r, byte).frames = r.frames
    BY <1>1, <1>3, <1>4 DEF Rx
<1> QED BY <1>1, <1>3, <1>5 DEF GoodRx, after

(* A frame comes out of the receiver only with a flag, and then it is what *)
(* the buffer held before its matching checksum.                           *)
LEMMA RxByteFrame ==
    ASSUME NEW r \in GoodRx, NEW byte \in Byte
    PROVE  \/ RxByte(r, byte) \in GoodRx
           \/ /\ byte = Flag /\ r.state = "Data" /\ r.buf # <<>> /\ CrcMatches(r.buf)
              /\ RxByte(r, byte) = [state |-> "Start", buf |-> <<>>, escape |-> r.escape,
                                    frames |-> <<Stripped(r.buf)>>]
<1>1. /\ r \in Rx /\ r.frames = <<>> /\ r.buf \in Seq(Byte) /\ r.escape \in BOOLEAN
      /\ Len(r.buf) <= PhysMtu /\ r.state \in {"Start", "Data"}
    BY DEF GoodRx, Rx
<1>2. CASE r.state = "Start" /\ byte = Flag
    <2>1. RxByte(r, byte) = [r EXCEPT !.state = "Data", !.buf = <<>>, !.escape = FALSE]
        BY <1>2 DEF RxByte
    <2>2. /\ RxByte(r, byte) \in Rx /\ RxByte(r, byte).buf = <<>>
          /\ RxByte(r, byte).frames = <<>>
        BY <1>1, <2>1, NoBytes DEF Rx
    <2> QED BY <2>2, MtuAssumption DEF GoodRx
<1>3. CASE r.state = "Start" /\ byte # Flag
    BY <1>3 DEF RxByte
<1>4. CASE r.state = "Data" /\ byte # Flag /\ byte = Escape
    <2>1. RxByte(r, byte) = [r EXCEPT !.escape = TRUE]
        BY <1>4 DEF RxByte
    <2> QED BY <1>1, <2>1 DEF GoodRx, Rx
<1>5. CASE r.state = "Data" /\ byte # Flag /\ byte # Escape
    BY <1>5, KeepByteGood DEF RxByte
<1>6. CASE r.state = "Data" /\ byte = Flag
    <2>1. RxByte(r, byte) = EndOfFrame(r)
        BY <1>6 DEF RxByte
    <2>2. CASE r.buf = <<>>
        <3>1. RxByte(r, byte) = [r EXCEPT !.escape = FALSE]
            BY <2>1, <2>2 DEF EndOfFrame
        <3> QED BY <1>1, <3>1 DEF GoodRx, Rx
    <2>3. CASE r.buf # <<>> /\ ~ CrcMatches(r.buf)
        <3>1. RxByte(r, byte) = [r EXCEPT !.state = "Start"]
            BY <2>1, <2>3 DEF EndOfFrame
        <3> QED BY <1>1, <3>1 DEF GoodRx, Rx
    <2>4. CASE r.buf # <<>> /\ CrcMatches(r.buf)
        <3>1. RxByte(r, byte) = [r EXCEPT !.state = "Start", !.buf = <<>>,
                                          !.frames = Append(@, Stripped(r.buf))]
            BY <2>1, <2>4 DEF EndOfFrame
        <3>2. RxByte(r, byte) = [state |-> "Start", buf |-> <<>>, escape |-> r.escape,
                                 frames |-> Append(r.frames, Stripped(r.buf))]
            BY <1>1, <3>1 DEF Rx
        <3>3. Append(r.frames, Stripped(r.buf)) = <<Stripped(r.buf)>>
            BY <1>1
        <3> QED BY <1>6, <2>4, <3>2, <3>3
    <2> QED BY <2>2, <2>3, <2>4
<1> QED BY <1>1, <1>2, <1>3, <1>4, <1>5, <1>6

LEMMA StrippedType ==
    ASSUME NEW buf \in Seq(Byte), CrcMatches(buf), Sendable(<<>>)
    PROVE  Stripped(buf) \in Seq(Byte)
<1>1. CrcSize \in Nat /\ CrcSize <= Len(buf)
    BY DEF CrcMatches, Sendable, CrcSize
<1> QED BY <1>1 DEF Stripped

(* A receiver whose frames nobody has fetched yet keeps its shape as well. *)
LEMMA RxByteType ==
    ASSUME NEW r \in Rx, Len(r.buf) <= PhysMtu, NEW byte \in Byte, Sendable(<<>>)
    PROVE  RxByte(r, byte) \in Rx /\ Len(RxByte(r, byte).buf) <= PhysMtu
<1>1. /\ r.buf \in Seq(Byte) /\ r.escape \in BOOLEAN /\ r.state \in {"Start", "Data"}
      /\ r.frames \in Seq(Seq(Byte)) /\ <<>> \in Seq(Byte) /\ Len(<<>>) <= PhysMtu
    BY NoBytes, MtuAssumption DEF Rx
<1>2. CASE r.state = "Start"
    <2>1. RxByte(r, byte) \in {r, [r EXCEPT !.state = "Data", !.buf = <<>>, !.escape = FALSE]}
        BY <1>2 DEF RxByte
    <2> QED BY <1>1, <2>1 DEF Rx
<1>3. CASE r.state = "Data" /\ byte = Flag
    <2>1. RxByte(r, byte) = EndOfFrame(r)
        BY <1>3 DEF RxByte
    <2>2. CASE r.buf = <<>> \/ ~ CrcMatches(r.buf)
        <3>1. RxByte(r, byte) \in {[r EXCEPT !.escape = FALSE], [r EXCEPT !.state = "Start"]}
            BY <2>1, <2>2 DEF EndOfFrame
        <3> QED BY <1>1, <3>1 DEF Rx
    <2>3. CASE r.buf # <<>> /\ CrcMatches(r.buf)
        <3>1. RxByte(r, byte) = [r EXCEPT !.state = "Start", !.buf = <<>>,
                                          !.frames = Append(@, Stripped(r.buf))]
            BY <2>1, <2>3 DEF EndOfFrame
        <3>2. Append(r.frames, Stripped(r.buf)) \in Seq(Seq(Byte))
            BY <1>1, <2>3, StrippedType
        <3> QED BY <1>1, <3>1, <3>2 DEF Rx
    <2> QED BY <2>2, <2>3
<1>4. CASE r.state = "Data" /\ byte # Flag /\ byte = Escape
    <2>1. RxByte(r, byte) = [r EXCEPT !.escape = TRUE]
        BY <1>4 DEF RxByte
    <2> QED BY <1>1, <2>1 DEF Rx
<1>5. CASE r.state = "Data" /\ byte # Flag /\ byte # Escape
    <2> DEFINE after == IF Len(r.buf) < PhysMtu
                        THEN Append(r.buf, IF r.escape THEN Toggle(byte) ELSE byte)
                        ELSE r.buf
    <2>1. RxByte(r, byte) = [r EXCEPT !.escape = FALSE, !.buf = after]
        BY <1>5 DEF RxByte, KeepByte
    <2>2. (IF r.escape THEN Toggle(byte) ELSE byte) \in Byte
        BY ByteAssumption
    <2>3. after \in Seq(Byte) /\ Len(after) <= PhysMtu
        BY <1>1, <2>2, MtuAssumption
    <2> HIDE DEF after
    <2> QED BY <1>1, <2>1, <2>3 DEF Rx
<1> QED BY <1>1, <1>2, <1>3, <1>4, <1>5

-------------------------------------------------------------------------------

(* An opening flag: a receiver that is ready is in step, another one is    *)
(* when it is not outside a frame.                                         *)
LEMMA OpeningFlag ==
    ASSUME NEW r \in GoodRx, NEW body
    PROVE  /\ RxByte(r, Flag).state = "Start" \/ InStep(RxByte(r, Flag), body, 0, FALSE)
           /\ Ready(r) => /\ InStep(RxByte(r, Flag), body, 0, FALSE)
                          /\ RxByte(r, Flag).frames = <<>>
<1>1. r \in Rx /\ r.frames = <<>> /\ r.state \in {"Start", "Data"}
    BY DEF GoodRx, Rx
<1>2. CASE r.state = "Start"
    <2>1. RxByte(r, Flag) = [r EXCEPT !.state = "Data", !.buf = <<>>, !.escape = FALSE]
        BY <1>2 DEF RxByte
    <2>2. /\ RxByte(r, Flag).state = "Data" /\ RxByte(r, Flag).buf = <<>>
          /\ RxByte(r, Flag).escape = FALSE /\ RxByte(r, Flag).frames = <<>>
        BY <1>1, <2>1 DEF Rx
    <2> QED BY <2>2, MtuAssumption DEF InStep
<1>3. CASE r.state = "Data"
    <2>1. RxByte(r, Flag) = EndOfFrame(r)
        BY <1>3 DEF RxByte
    <2>2. CASE r.buf = <<>>
        <3>1. RxByte(r, Flag) = [r EXCEPT !.escape = FALSE]
            BY <2>1, <2>2 DEF EndOfFrame
        <3>2. /\ RxByte(r, Flag).state = "Data" /\ RxByte(r, Flag).buf = <<>>
              /\ RxByte(r, Flag).escape = FALSE /\ RxByte(r, Flag).frames = <<>>
            BY <1>1, <1>3, <2>2, <3>1 DEF Rx
        <3> QED BY <3>2, MtuAssumption DEF InStep
    <2>3. CASE r.buf # <<>>
        <3>1. RxByte(r, Flag).state = "Start"
            BY <1>1, <2>1, <2>3 DEF EndOfFrame, Rx
        <3> QED BY <1>3, <2>3, <3>1 DEF Ready
    <2> QED BY <2>2, <2>3
<1> QED BY <1>1, <1>2, <1>3

LEMMA FlagOpens ==
    ASSUME NEW r \in GoodRx, Ready(r), NEW body \in Seq(Byte)
    PROVE  InStep(RxByte(r, Flag), body, 0, FALSE) /\ RxByte(r, Flag).frames = <<>>
BY OpeningFlag

(* The next byte of the body, escaped if it must be, and the escape before *)
(* it.                                                                     *)
LEMMA InStepEscape ==
    ASSUME NEW r \in GoodRx, NEW body, NEW n \in Nat, NEW e \in BOOLEAN, InStep(r, body, n, e)
    PROVE  InStep(RxByte(r, Escape), body, n, TRUE)
<1>1. RxByte(r, Escape) = [r EXCEPT !.escape = TRUE]
    BY ByteAssumption DEF RxByte, InStep
<1> QED BY <1>1 DEF InStep, GoodRx, Rx

LEMMA InStepByte ==
    ASSUME NEW r \in GoodRx, NEW body \in Seq(Byte), NEW n \in Nat, n < Len(body),
           InStep(r, body, n, body[n + 1] \in Special)
    PROVE  InStep(RxByte(r, OnLine(body[n + 1])), body, n + 1, FALSE)
<1> DEFINE b == body[n + 1]
           q == RxByte(r, OnLine(b))
<1>1. b \in Byte
    OBVIOUS
<1>2. OnLine(b) \in Byte /\ OnLine(b) # Flag /\ OnLine(b) # Escape
    BY <1>1, OnLineByte DEF Special
<1>3. /\ r.state = "Data" /\ r.escape = (b \in Special)
      /\ Len(r.buf) = IF n <= PhysMtu THEN n ELSE PhysMtu
      /\ \A i \in DOMAIN r.buf : r.buf[i] = body[i]
      /\ r.buf \in Seq(Byte)
    BY DEF InStep, GoodRx, Rx
<1>4. (IF r.escape THEN Toggle(OnLine(b)) ELSE OnLine(b)) = b
    BY <1>1, <1>3, OnLineByte
<1>5. q = KeepByte(r, OnLine(b))
    BY <1>2, <1>3 DEF RxByte
<1>6. /\ q.state = "Data" /\ q.escape = FALSE
      /\ q.buf = IF Len(r.buf) < PhysMtu THEN Append(r.buf, b) ELSE r.buf
    <2>1. q \in Rx
        BY <1>2, <1>5, KeepByteGood DEF GoodRx
    <2>2. q.escape \in BOOLEAN
        BY <2>1 DEF Rx
    <2>3. /\ q.state = r.state /\ ~ q.escape
          /\ q.buf = IF Len(r.buf) < PhysMtu
                     THEN Append(r.buf, IF r.escape THEN Toggle(OnLine(b)) ELSE OnLine(b))
                     ELSE r.buf
        BY <1>2, <1>5, KeepByteGood
    <2> HIDE DEF q
    <2> QED BY <1>3, <1>4, <2>2, <2>3
<1> HIDE DEF q
<1>7. CASE Len(r.buf) < PhysMtu
    <2>1. Len(r.buf) = n /\ n + 1 <= PhysMtu /\ q.buf = Append(r.buf, b)
        BY <1>3, <1>6, <1>7, MtuAssumption
    <2>2. Len(q.buf) = n + 1 /\ DOMAIN q.buf = 1 .. n + 1
        BY <1>1, <1>3, <2>1
    <2>3. ASSUME NEW i \in 1 .. n + 1 PROVE q.buf[i] = body[i]
        <3>1. CASE i = n + 1
            BY <1>1, <1>3, <2>1, <3>1
        <3>2. CASE i # n + 1
            BY <1>1, <1>3, <2>1, <3>2
        <3> QED BY <3>1, <3>2
    <2>4. InStep(q, body, n + 1, FALSE)
        BY <1>6, <2>1, <2>2, <2>3 DEF InStep
    <2> QED BY <2>4 DEF q
<1>8. CASE ~ (Len(r.buf) < PhysMtu)
    <2>1. q.buf = r.buf /\ Len(r.buf) = PhysMtu /\ n >= PhysMtu
        BY <1>3, <1>6, <1>8, MtuAssumption
    <2>2. InStep(q, body, n + 1, FALSE)
        BY <1>3, <1>6, <2>1, MtuAssumption DEF InStep
    <2> QED BY <2>2 DEF q
<1> QED BY <1>7, <1>8

(* The closing flag ends the frame; one that fits comes out as it was.     *)
LEMMA ClosingFlag ==
    ASSUME NEW r \in GoodRx, NEW data, Sendable(data), data # <<>>,
           InStep(r, data \o Crc(data), Len(data \o Crc(data)), FALSE)
    PROVE  /\ RxByte(r, Flag).state = "Start"
           /\ Len(data \o Crc(data)) <= PhysMtu => RxByte(r, Flag).frames = <<data>>
           /\ Len(data \o Crc(data)) > PhysMtu =>
                  r.buf = SubSeq(data \o Crc(data), 1, PhysMtu)
<1> DEFINE body == data \o Crc(data)
<1>1. /\ data \in Seq(Byte) /\ Crc(data) \in Seq(Byte) /\ Len(Crc(data)) = CrcSize
      /\ Len(data) \in Nat /\ Len(data) > 0 /\ CrcSize \in Nat
    BY EmptySeq DEF Sendable
<1>2. /\ body \in Seq(Byte) /\ Len(body) = Len(data) + CrcSize
      /\ \A i \in 1 .. Len(body) : body[i] = IF i <= Len(data) THEN data[i]
                                             ELSE Crc(data)[i - Len(data)]
    BY <1>1, ConcatProperties
<1> HIDE DEF body
<1>3. /\ r.state = "Data" /\ r.buf \in Seq(Byte) /\ r.frames = <<>> /\ r \in Rx
      /\ Len(r.buf) = IF Len(body) <= PhysMtu THEN Len(body) ELSE PhysMtu
      /\ \A i \in 1 .. Len(r.buf) : r.buf[i] = body[i]
    BY SMTT(30) DEF InStep, GoodRx, Rx, body
<1>4. RxByte(r, Flag) = EndOfFrame(r) /\ r.buf # <<>>
    BY <1>1, <1>2, <1>3, MtuAssumption, EmptySeq DEF RxByte
<1>5. RxByte(r, Flag).state = "Start"
    BY <1>3, <1>4 DEF EndOfFrame, Rx
<1>6. ASSUME Len(body) <= PhysMtu PROVE RxByte(r, Flag).frames = <<data>>
    <2>1. r.buf = body
        BY <1>2, <1>3, <1>6
    <2>2. SubSeq(body, 1, Len(data)) = data
        BY <1>1, <1>2
    <2>3. SubSeq(body, Len(data) + 1, Len(body)) = Crc(data)
        BY <1>1, <1>2
    <2>4. Len(r.buf) - CrcSize = Len(data) /\ Len(r.buf) >= CrcSize
        BY <1>1, <1>2, <2>1
    <2>5. Stripped(r.buf) = data /\ CrcMatches(r.buf)
        BY <2>1, <2>2, <2>3, <2>4 DEF Stripped, CrcMatches
    <2>6. RxByte(r, Flag) = [r EXCEPT !.state = "Start", !.buf = <<>>,
                                      !.frames = Append(@, data)]
        BY <1>4, <2>5 DEF EndOfFrame
    <2> QED BY <1>3, <2>6 DEF Rx
<1>7. ASSUME Len(body) > PhysMtu PROVE r.buf = SubSeq(body, 1, PhysMtu)
    <2>1. Len(r.buf) = PhysMtu /\ PhysMtu \in Nat
        BY <1>2, <1>3, <1>7, MtuAssumption
    <2> QED BY <1>2, <1>3, <1>7, <2>1
<1> QED BY <1>5, <1>6, <1>7 DEF body

LEMMA FlagCloses ==
    ASSUME NEW r \in GoodRx, NEW data \in Seq(Byte), Sendable(data), data # <<>>,
           InStep(r, data \o Crc(data), Len(data \o Crc(data)), FALSE),
           Len(data \o Crc(data)) <= PhysMtu
    PROVE  RxByte(r, Flag).frames = <<data>>
BY ClosingFlag

-------------------------------------------------------------------------------

(* What run_tx has written of the frame it is in, byte by byte: the flag   *)
(* and the stuffed bytes so far.                                           *)
SoFar(t) == <<Flag>> \o StuffedAll(SubSeq(Body(t), 1, t.pos))
                     \o (IF t.escape THEN <<Escape>> ELSE <<>>)

LEMMA StuffedPrefix ==
    ASSUME NEW s \in Seq(Byte), NEW k \in Nat, k <= Len(s)
    PROVE  StuffedAll(SubSeq(s, 1, k)) \in Seq(Byte)
<1>1. CASE k < Len(s)
    BY <1>1, StuffedNext
<1>2. CASE k = 0
    <2>1. SubSeq(s, 1, k) = <<>>
        BY <1>2
    <2> QED BY <2>1, StuffedNone, NoBytes
<1>3. CASE k = Len(s) /\ k # 0
    <2>1. k - 1 \in Nat /\ k - 1 < Len(s) /\ k - 1 + 1 = k /\ s[k] \in Byte
        BY <1>3
    <2>2. /\ StuffedAll(SubSeq(s, 1, k)) = StuffedAll(SubSeq(s, 1, k - 1)) \o Stuffed(s[k])
          /\ StuffedAll(SubSeq(s, 1, k - 1)) \in Seq(Byte)
        BY <2>1, StuffedNext
    <2>3. Stuffed(s[k]) \in Seq(Byte)
        BY <2>1, StuffedType
    <2> QED BY <2>2, <2>3, ConcatProperties
<1> QED BY <1>1, <1>2, <1>3

(* Byte by byte run_tx writes the frame with its flags.                    *)
LEMMA TxStepWrites ==
    ASSUME NEW P, Frames(P), NEW t \in GoodTx(P), TxBusy(t)
    PROVE  /\ t.state = "Start" =>
                  /\ SoFar(TxStep(t)) = <<TxOut(t)>>
                  /\ TxStep(t).state = "Data" /\ TxStep(t).data = t.data
                  /\ TxStep(t).sent = t.sent
           /\ t.state = "Data" /\ t.pos # Len(Body(t)) =>
                  /\ SoFar(TxStep(t)) = SoFar(t) \o <<TxOut(t)>>
                  /\ TxStep(t).state = "Data" /\ TxStep(t).data = t.data
                  /\ TxStep(t).sent = t.sent
           /\ t.state = "Data" /\ t.pos = Len(Body(t)) =>
                  /\ Framed(Body(t)) = SoFar(t) \o <<TxOut(t)>>
                  /\ TxStep(t).state = "Start" /\ TxStep(t).data = <<>>
                  /\ TxStep(t).sent = Append(t.sent, t.data)
           /\ t.state = "Data" => SoFar(t) \in Seq(Byte)
<1> DEFINE u == TxStep(t)
           body == Body(t)
           stuffed(k) == StuffedAll(SubSeq(body, 1, k))
<1>1. t \in Tx
    BY DEF GoodTx
<1>2. /\ body \in Seq(Byte) /\ Len(body) \in Nat
      /\ t.state \in {"Start", "Data"} /\ t.pos \in Nat /\ t.escape \in BOOLEAN
      /\ t.state = "Data" => t.pos <= Len(body)
      /\ t.state = "Data" /\ t.escape => t.pos < Len(body) /\ NextByte(t) \in Special
    <2>1. body \in Seq(Byte)
        BY BodyType
    <2> QED BY <1>1, <2>1 DEF GoodTx, Tx
<1>3. Flag \in Byte /\ Escape \in Byte /\ <<Flag>> \in Seq(Byte) /\ <<Escape>> \in Seq(Byte)
    BY ByteAssumption DEF Special
<1>4. \A k \in Nat : k <= Len(body) => stuffed(k) \in Seq(Byte)
    BY <1>2, StuffedPrefix
<1>5. t.state = "Data" => SoFar(t) \in Seq(Byte)
    <2>1. ASSUME t.state = "Data" PROVE <<Flag>> \o stuffed(t.pos) \in Seq(Byte)
        BY <1>2, <1>3, <1>4, <2>1, ConcatProperties
    <2> QED BY <1>3, <2>1, ConcatProperties, NoBytes DEF SoFar
<1>6. CASE t.state = "Start"
    <2>1. u = [t EXCEPT !.state = "Data", !.pos = 0, !.escape = FALSE]
        BY <1>6 DEF TxStep
    <2>2. u.state = "Data" /\ u.pos = 0 /\ ~ u.escape /\ u.data = t.data /\ u.sent = t.sent
        BY <1>1, <2>1 DEF Tx
    <2>3. TxOut(t) = Flag
        BY <1>6 DEF TxOut
    <2>4. Body(u) = body
        BY <2>2 DEF Body
    <2>5. SubSeq(body, 1, 0) = <<>>
        BY <1>2
    <2>6. SoFar(u) = <<Flag>> \o <<>> \o <<>>
        BY <2>2, <2>4, <2>5, StuffedNone DEF SoFar
    <2>7. SoFar(u) = <<Flag>>
        BY <1>3, <2>6, ConcatEmptySeq
    <2> QED BY <1>6, <2>2, <2>3, <2>7
<1>7. CASE t.state = "Data" /\ t.pos = Len(body)
    <2>1. u = [t EXCEPT !.state = "Start", !.escape = FALSE, !.data = <<>>,
                        !.sent = Append(@, t.data)]
        BY <1>7 DEF TxStep
    <2>2. u.state = "Start" /\ u.data = <<>> /\ u.sent = Append(t.sent, t.data)
        BY <1>1, <2>1 DEF Tx
    <2>3. TxOut(t) = Flag /\ ~ t.escape
        BY <1>2, <1>7 DEF TxOut
    <2>4. SubSeq(body, 1, Len(body)) = body
        BY <1>2
    <2>5. SoFar(t) = <<Flag>> \o StuffedAll(body)
        <3>1. SoFar(t) = <<Flag>> \o StuffedAll(body) \o <<>>
            BY <1>7, <2>3, <2>4 DEF SoFar
        <3>2. StuffedAll(body) \in Seq(Byte)
            <4>1. stuffed(Len(body)) \in Seq(Byte)
                BY <1>2, <1>4
            <4> QED BY <2>4, <4>1
        <3>3. <<Flag>> \o StuffedAll(body) \in Seq(Byte)
            BY <1>3, <3>2, ConcatProperties
        <3> QED BY <3>1, <3>3, ConcatEmptySeq
    <2>6. Framed(Body(t)) = SoFar(t) \o <<TxOut(t)>>
        BY <2>3, <2>5 DEF Framed
    <2> QED BY <1>5, <1>7, <2>2, <2>6
<1>8. CASE t.state = "Data" /\ t.pos < Len(body) /\ NextByte(t) \in Special /\ ~ t.escape
    <2>1. u = [t EXCEPT !.escape = TRUE]
        BY <1>2, <1>8 DEF TxStep
    <2>2. /\ u.state = "Data" /\ u.escape /\ u.data = t.data /\ u.pos = t.pos
          /\ u.sent = t.sent
        BY <1>1, <1>8, <2>1 DEF Tx
    <2>3. TxOut(t) = Escape
        BY <1>2, <1>8 DEF TxOut
    <2>4. Body(u) = body
        BY <2>2 DEF Body
    <2>5. SoFar(u) = <<Flag>> \o stuffed(t.pos) \o <<Escape>>
        BY <2>2, <2>4 DEF SoFar
    <2>6. SoFar(t) = <<Flag>> \o stuffed(t.pos)
        <3>1. SoFar(t) = <<Flag>> \o stuffed(t.pos) \o <<>>
            BY <1>8 DEF SoFar
        <3>2. <<Flag>> \o stuffed(t.pos) \in Seq(Byte)
            BY <1>2, <1>3, <1>4, <1>8, ConcatProperties
        <3> QED BY <3>1, <3>2, ConcatEmptySeq
    <2> QED BY <1>2, <1>5, <1>8, <2>2, <2>3, <2>5, <2>6
<1>9. CASE t.state = "Data" /\ t.pos < Len(body) /\ ~ (NextByte(t) \in Special /\ ~ t.escape)
    <2> DEFINE b == body[t.pos + 1]
    <2>1. u = [t EXCEPT !.escape = FALSE, !.pos = @ + 1]
        BY <1>2, <1>9 DEF TxStep
    <2>2. /\ u.state = "Data" /\ ~ u.escape /\ u.data = t.data /\ u.pos = t.pos + 1
          /\ u.sent = t.sent
        BY <1>1, <1>9, <2>1 DEF Tx
    <2>3. b \in Byte /\ (t.escape <=> b \in Special)
        BY <1>2, <1>9 DEF NextByte
    <2>4. TxOut(t) = IF b \in Special THEN Toggle(b) ELSE b
        BY <1>2, <1>9 DEF TxOut, NextByte
    <2>5. Body(u) = body
        BY <2>2 DEF Body
    <2>6. stuffed(t.pos + 1) = stuffed(t.pos) \o Stuffed(b) /\ stuffed(t.pos + 1) \in Seq(Byte)
        <3>1. stuffed(t.pos + 1) = stuffed(t.pos) \o Stuffed(b)
            BY <1>2, <1>9, StuffedNext
        <3> QED BY <1>2, <1>4, <1>9, <3>1
    <2>7. SoFar(u) = <<Flag>> \o stuffed(t.pos + 1)
        <3>1. SoFar(u) = <<Flag>> \o stuffed(t.pos + 1) \o <<>>
            BY <2>2, <2>5 DEF SoFar
        <3> QED BY <1>3, <2>6, <3>1, ConcatEmptySeq
    <2>8. stuffed(t.pos) \in Seq(Byte) /\ Toggle(b) \in Byte
        BY <1>2, <1>4, <1>9, <2>3, ByteAssumption
    <2>9. SoFar(t) \o <<TxOut(t)>> = SoFar(u)
        <3>1. CASE b \in Special
            <4>1. /\ SoFar(t) = (<<Flag>> \o stuffed(t.pos)) \o <<Escape>>
                  /\ TxOut(t) = Toggle(b) /\ Stuffed(b) = <<Escape, Toggle(b)>>
                BY <2>3, <2>4, <3>1 DEF Stuffed, SoFar
            <4> HIDE DEF stuffed, b
            <4>2. <<Flag>> \o stuffed(t.pos) \o <<Escape>> \o <<Toggle(b)>>
                      = <<Flag>> \o (stuffed(t.pos) \o <<Escape, Toggle(b)>>)
                BY <1>3, <2>8
            <4> QED BY <2>6, <2>7, <4>1, <4>2
        <3>2. CASE b \notin Special
            <4>1. /\ SoFar(t) = (<<Flag>> \o stuffed(t.pos)) \o <<>>
                  /\ TxOut(t) = b /\ Stuffed(b) = <<b>>
                BY <2>3, <2>4, <3>2 DEF Stuffed, SoFar
            <4> HIDE DEF stuffed, b
            <4>2. <<Flag>> \o stuffed(t.pos) \o <<>> \o <<b>>
                      = <<Flag>> \o (stuffed(t.pos) \o <<b>>)
                BY <1>3, <2>3, <2>8
            <4> QED BY <2>6, <2>7, <4>1, <4>2
        <3> QED BY <3>1, <3>2
    <2> QED BY <1>2, <1>5, <1>9, <2>2, <2>9
<1>10. /\ t.state = "Start" \/ t.state = "Data"
       /\ t.state = "Data" => t.pos = Len(body) \/ t.pos < Len(body)
    BY <1>2
<1>11. CASE t.state = "Data"
    <2> HIDE DEF u, body, stuffed
    <2>1. CASE t.pos = Len(body)
        BY <1>7, <1>11, <2>1
    <2>2. CASE t.pos < Len(body)
        BY <1>8, <1>9, <1>11, <2>2
    <2> QED BY <1>10, <1>11, <2>1, <2>2
<1> QED BY <1>6, <1>10, <1>11

-------------------------------------------------------------------------------
(* HdlcEncoder::decode over what HdlcEncoder::encode writes.               *)

DecodeState == [consumed : Nat, done : BOOLEAN, escape : BOOLEAN, result : Seq(Byte)]

LEMMA DecodeByteType ==
    ASSUME NEW d \in DecodeState, NEW byte \in Byte
    PROVE  DecodeByte(d, byte) \in DecodeState
<1>1. /\ d.consumed + 1 \in Nat /\ d.result \in Seq(Byte)
      /\ Append(d.result, IF d.escape THEN Toggle(byte) ELSE byte) \in Seq(Byte)
    <2>1. (IF d.escape THEN Toggle(byte) ELSE byte) \in Byte
        BY ByteAssumption
    <2> QED BY <2>1 DEF DecodeState
<1> QED BY <1>1 DEF DecodeByte, DecodeState

(* What the loop does with a byte, field by field.                         *)
LEMMA DecodeByteFields ==
    ASSUME NEW d \in DecodeState, ~ d.done, NEW byte \in Byte
    PROVE  LET e == DecodeByte(d, byte)
           IN  /\ e.consumed = d.consumed + 1
               /\ byte = Flag => e.escape = d.escape /\ e.result = d.result
                                /\ (e.done <=> d.result # <<>>)
               /\ byte # Flag => ~ e.done /\ (e.escape <=> byte = Escape)
               /\ byte # Flag /\ byte # Escape =>
                      e.result = Append(d.result, IF d.escape THEN Toggle(byte) ELSE byte)
               /\ byte # Flag /\ byte = Escape => e.result = d.result
BY DEF DecodeByte, DecodeState

LEMMA SameDecodeState ==
    ASSUME NEW d \in DecodeState, NEW n, NEW r
    PROVE  d.consumed = n /\ d.result = r =>
           /\ ~ d.done /\ ~ d.escape =>
                  d = [consumed |-> n, done |-> FALSE, escape |-> FALSE, result |-> r]
           /\ ~ d.done /\ d.escape =>
                  d = [consumed |-> n, done |-> FALSE, escape |-> TRUE, result |-> r]
           /\ d.done /\ ~ d.escape =>
                  d = [consumed |-> n, done |-> TRUE, escape |-> FALSE, result |-> r]
BY DEF DecodeState

LEMMA DecodeStep ==
    ASSUME NEW n \in Nat, NEW r \in Seq(Byte)
    PROVE  /\ DecodeByte([consumed |-> n, done |-> FALSE, escape |-> FALSE, result |-> r], Escape)
                  = [consumed |-> n + 1, done |-> FALSE, escape |-> TRUE, result |-> r]
           /\ \A byte \in Byte \ Special :
                 /\ DecodeByte([consumed |-> n, done |-> FALSE, escape |-> FALSE, result |-> r], byte)
                        = [consumed |-> n + 1, done |-> FALSE, escape |-> FALSE,
                           result |-> Append(r, byte)]
                 /\ DecodeByte([consumed |-> n, done |-> FALSE, escape |-> TRUE, result |-> r], byte)
                        = [consumed |-> n + 1, done |-> FALSE, escape |-> FALSE,
                           result |-> Append(r, Toggle(byte))]
<1> DEFINE d == [consumed |-> n, done |-> FALSE, escape |-> FALSE, result |-> r]
           e == [consumed |-> n, done |-> FALSE, escape |-> TRUE, result |-> r]
<1>1. /\ d \in DecodeState /\ ~ d.done /\ d.consumed = n /\ d.result = r /\ ~ d.escape
      /\ e \in DecodeState /\ ~ e.done /\ e.consumed = n /\ e.result = r /\ e.escape
    BY DEF DecodeState
<1>2. Flag \in Byte /\ Escape \in Byte /\ Escape # Flag
    BY ByteAssumption DEF Special
<1> HIDE DEF d, e
<1>3. DecodeByte(d, Escape) = [consumed |-> n + 1, done |-> FALSE, escape |-> TRUE, result |-> r]
    <2> DEFINE f == DecodeByte(d, Escape)
    <2>1. f \in DecodeState
        BY <1>1, <1>2, DecodeByteType
    <2>2. f.consumed = n + 1 /\ ~ f.done /\ f.escape /\ f.result = r
        BY <1>1, <1>2, DecodeByteFields
    <2> HIDE DEF f
    <2>3. f = [consumed |-> n + 1, done |-> FALSE, escape |-> TRUE, result |-> r]
        BY <2>1, <2>2, SameDecodeState
    <2> QED BY <2>3 DEF f
<1>4. ASSUME NEW byte \in Byte \ Special
      PROVE  /\ DecodeByte(d, byte) = [consumed |-> n + 1, done |-> FALSE, escape |-> FALSE,
                                       result |-> Append(r, byte)]
             /\ DecodeByte(e, byte) = [consumed |-> n + 1, done |-> FALSE, escape |-> FALSE,
                                       result |-> Append(r, Toggle(byte))]
    <2> DEFINE f == DecodeByte(d, byte)
               g == DecodeByte(e, byte)
    <2>1. f \in DecodeState /\ g \in DecodeState
        BY <1>1, DecodeByteType
    <2>2. byte # Flag /\ byte # Escape
        BY DEF Special
    <2>3. /\ f.consumed = n + 1 /\ ~ f.done /\ ~ f.escape /\ f.result = Append(r, byte)
          /\ g.consumed = n + 1 /\ ~ g.done /\ ~ g.escape /\ g.result = Append(r, Toggle(byte))
        BY <1>1, <2>2, DecodeByteFields
    <2> HIDE DEF f, g
    <2>4. f = [consumed |-> n + 1, done |-> FALSE, escape |-> FALSE, result |-> Append(r, byte)]
        BY <2>1, <2>3, SameDecodeState
    <2>5. g = [consumed |-> n + 1, done |-> FALSE, escape |-> FALSE,
               result |-> Append(r, Toggle(byte))]
        BY <2>1, <2>3, SameDecodeState
    <2> QED BY <2>4, <2>5 DEF f, g
<1> QED BY <1>3, <1>4 DEF d, e

(* Its loop over the bytes is well defined.                                *)
LEMMA DecodeLoopExists ==
    ASSUME NEW s \in Seq(Byte)
    PROVE  \E g : g = [i \in 0 .. Len(s) |->
                          IF i = 0 THEN DecodeStart ELSE DecodeByte(g[i - 1], s[i])]
<1> DEFINE N == Len(s)
           Prefix(m, g) == /\ g[0] = DecodeStart
                           /\ \A i \in 1 .. m : g[i] = DecodeByte(g[i - 1], s[i])
           T == {m \in 0 .. N : \E g \in [0 .. m -> DecodeState] : Prefix(m, g)}
<1>1. N \in Nat /\ \A i \in 1 .. N : s[i] \in Byte
    OBVIOUS
<1>2. 0 \in T
    <2> DEFINE start == [i \in 0 .. 0 |-> DecodeStart]
    <2>1. DecodeStart \in DecodeState
        BY NoBytes DEF DecodeStart, DecodeState
    <2>2. start \in [0 .. 0 -> DecodeState] /\ start[0] = DecodeStart /\ 1 .. 0 = {}
        BY <2>1
    <2>3. 0 \in 0 .. N
        BY <1>1
    <2> HIDE DEF start, N
    <2> QED BY <2>2, <2>3
<1>3. \A m \in 0 .. N : m \in T /\ m # N => m + 1 \in T
    <2> SUFFICES ASSUME NEW m \in 0 .. N, m \in T, m # N PROVE m + 1 \in T
        OBVIOUS
    <2>1. PICK g \in [0 .. m -> DecodeState] : Prefix(m, g)
        OBVIOUS
    <2> DEFINE h == [i \in 0 .. m + 1 |->
                        IF i = m + 1 THEN DecodeByte(g[m], s[m + 1]) ELSE g[i]]
    <2>2. m \in Nat /\ m + 1 \in 1 .. N /\ m + 1 \in 0 .. N
        BY <1>1
    <2>3. DecodeByte(g[m], s[m + 1]) \in DecodeState
        BY <1>1, <2>2, DecodeByteType
    <2>4. h \in [0 .. m + 1 -> DecodeState]
        BY <2>2, <2>3
    <2>5. h[0] = DecodeStart
        BY <2>1, <2>2
    <2>6. ASSUME NEW i \in 1 .. m + 1 PROVE h[i] = DecodeByte(h[i - 1], s[i])
        <3>1. CASE i = m + 1
            BY <2>2, <3>1
        <3>2. CASE i # m + 1
            BY <2>1, <2>2, <3>2
        <3> QED BY <3>1, <3>2
    <2> HIDE DEF h
    <2> QED BY <2>2, <2>4, <2>5, <2>6
<1>4. N \in T
    <2> HIDE DEF T, N
    <2> QED BY <1>1, <1>2, <1>3, CountingUp
<1>5. PICK g \in [0 .. N -> DecodeState] : Prefix(N, g)
    BY <1>4
<1>6. g = [i \in 0 .. N |-> IF i = 0 THEN DecodeStart ELSE DecodeByte(g[i - 1], s[i])]
    BY <1>1, <1>5
<1> QED BY <1>6

LEMMA DecodeLoop ==
    ASSUME NEW s \in Seq(Byte)
    PROVE  \E g : /\ g[0] = DecodeStart
                  /\ \A i \in 1 .. Len(s) : g[i] = DecodeByte(g[i - 1], s[i])
                  /\ Decoded(s) = g[Len(s)]
<1> DEFINE f == CHOOSE g : g = [i \in 0 .. Len(s) |->
                                  IF i = 0 THEN DecodeStart ELSE DecodeByte(g[i - 1], s[i])]
<1>1. f = [i \in 0 .. Len(s) |-> IF i = 0 THEN DecodeStart ELSE DecodeByte(f[i - 1], s[i])]
    BY DecodeLoopExists
<1>2. Decoded(s) = f[Len(s)]
    BY DEF Decoded
<1> HIDE DEF f
<1>3. Len(s) \in Nat
    OBVIOUS
<1>4. f[0] = DecodeStart /\ \A i \in 1 .. Len(s) : f[i] = DecodeByte(f[i - 1], s[i])
    BY <1>1, <1>3
<1> QED BY <1>2, <1>4

(* One byte more.                                                          *)
LEMMA DecodedAppend ==
    ASSUME NEW s \in Seq(Byte), NEW byte \in Byte
    PROVE  Decoded(Append(s, byte)) = DecodeByte(Decoded(s), byte)
<1> DEFINE N == Len(s)
           t == Append(s, byte)
<1>1. /\ N \in Nat /\ t \in Seq(Byte) /\ Len(t) = N + 1 /\ t[N + 1] = byte
      /\ \A i \in 1 .. N : t[i] = s[i]
    OBVIOUS
<1>2. PICK f : /\ f[0] = DecodeStart
               /\ \A i \in 1 .. N : f[i] = DecodeByte(f[i - 1], s[i])
               /\ Decoded(s) = f[N]
    BY DecodeLoop
<1> HIDE DEF t
<1>3. PICK h : /\ h[0] = DecodeStart
               /\ \A i \in 1 .. Len(t) : h[i] = DecodeByte(h[i - 1], t[i])
               /\ Decoded(t) = h[Len(t)]
    BY <1>1, DecodeLoop
<1> HIDE DEF N
<1> DEFINE T == {m \in 0 .. N : f[m] = h[m]}
<1>4. 0 \in T
    BY <1>1, <1>2, <1>3
<1>5. \A m \in 0 .. N : m \in T /\ m # N => m + 1 \in T
    <2> SUFFICES ASSUME NEW m \in 0 .. N, m \in T, m # N PROVE m + 1 \in T
        OBVIOUS
    <2>1. m + 1 \in 1 .. N /\ m + 1 \in 1 .. N + 1 /\ m + 1 \in 0 .. N /\ m + 1 - 1 = m
        BY <1>1
    <2> QED BY <1>1, <1>2, <1>3, <2>1
<1>6. N \in T
    <2> HIDE DEF T
    <2> QED BY <1>1, <1>4, <1>5, CountingUp
<1>7. N + 1 \in 1 .. N + 1 /\ N + 1 - 1 = N
    BY <1>1
<1>8. h[N + 1] = DecodeByte(h[N], byte)
    BY <1>1, <1>3, <1>7
<1> QED BY <1>1, <1>2, <1>3, <1>6, <1>8 DEF t

LEMMA DecodedNone == Decoded(<<>>) = DecodeStart
<1>1. <<>> \in Seq(Byte) /\ Len(<<>>) = 0
    BY NoBytes
<1> QED BY <1>1, DecodeLoop

(* The loop after the opening flag and the bytes of a body, stuffed.       *)
LEMMA DecodedBody ==
    ASSUME NEW body \in Seq(Byte), NEW k \in Nat, k <= Len(body)
    PROVE  LET bytes == <<Flag>> \o StuffedAll(SubSeq(body, 1, k))
           IN  /\ bytes \in Seq(Byte)
               /\ Decoded(bytes) = [consumed |-> Len(bytes), done |-> FALSE, escape |-> FALSE,
                                    result |-> SubSeq(body, 1, k)]
<1> DEFINE so(m) == <<Flag>> \o StuffedAll(SubSeq(body, 1, m))
           State(m) == [consumed |-> Len(so(m)), done |-> FALSE, escape |-> FALSE,
                        result |-> SubSeq(body, 1, m)]
           T == {m \in 0 .. Len(body) : so(m) \in Seq(Byte) /\ Decoded(so(m)) = State(m)}
<1>1. /\ Flag \in Byte /\ Escape \in Byte /\ Flag # Escape /\ <<Flag>> \in Seq(Byte)
      /\ Flag \in Special /\ Escape \in Special
    BY ByteAssumption DEF Special
<1>2. 0 \in T
    <2>1. SubSeq(body, 1, 0) = <<>>
        OBVIOUS
    <2>2. so(0) = <<Flag>>
        BY <1>1, <2>1, StuffedNone, ConcatEmptySeq
    <2>3. <<Flag>> = Append(<<>>, Flag)
        OBVIOUS
    <2>4. Decoded(<<Flag>>) = DecodeByte(DecodeStart, Flag)
        BY <1>1, <2>3, NoBytes, DecodedNone, DecodedAppend
    <2>5. DecodeByte(DecodeStart, Flag)
              = [consumed |-> 1, done |-> FALSE, escape |-> FALSE, result |-> <<>>]
        <3> DEFINE e == DecodeByte(DecodeStart, Flag)
        <3>1. DecodeStart \in DecodeState /\ DecodeStart.result = <<>> /\ ~ DecodeStart.done
              /\ DecodeStart.consumed = 0 /\ ~ DecodeStart.escape
            BY NoBytes DEF DecodeStart, DecodeState
        <3>2. e \in DecodeState
            BY <1>1, <3>1, DecodeByteType
        <3>3. e.consumed = 1 /\ ~ e.done /\ ~ e.escape /\ e.result = <<>>
            BY <1>1, <3>1, DecodeByteFields
        <3> HIDE DEF e
        <3> QED BY <3>2, <3>3, SameDecodeState DEF e
    <2>6. Len(<<Flag>>) = 1 /\ 0 \in 0 .. Len(body)
        OBVIOUS
    <2> HIDE DEF so
    <2> QED BY <1>1, <2>1, <2>2, <2>4, <2>5, <2>6
<1>3. ASSUME NEW m \in 0 .. Len(body), m \in T, m # Len(body) PROVE m + 1 \in T
    <2> DEFINE b == body[m + 1]
               r == SubSeq(body, 1, m)
    <2>1. /\ m \in Nat /\ m < Len(body) /\ m + 1 \in 0 .. Len(body)
          /\ b \in Byte /\ Toggle(b) \in Byte /\ r \in Seq(Byte)
        BY <1>3, ByteAssumption
    <2>2. SubSeq(body, 1, m + 1) = Append(r, b)
        BY <2>1
    <2>3. /\ StuffedAll(r) \in Seq(Byte)
          /\ StuffedAll(SubSeq(body, 1, m + 1)) = StuffedAll(r) \o Stuffed(b)
        BY <2>1, StuffedNext
    <2>4. so(m) \in Seq(Byte) /\ Decoded(so(m)) = State(m) /\ so(m) = <<Flag>> \o StuffedAll(r)
        BY <1>3
    <2> HIDE DEF b, r
    <2>5. so(m + 1) = so(m) \o Stuffed(b)
        <3>1. Stuffed(b) \in Seq(Byte)
            BY <2>1, StuffedType
        <3>2. so(m + 1) = <<Flag>> \o (StuffedAll(r) \o Stuffed(b))
            BY <2>3
        <3>3. (<<Flag>> \o StuffedAll(r)) \o Stuffed(b)
                  = <<Flag>> \o (StuffedAll(r) \o Stuffed(b))
            BY <1>1, <2>3, <3>1, ConcatAssociative
        <3> HIDE DEF so
        <3> QED BY <2>4, <3>2, <3>3
    <2> DEFINE s == so(m)
               u == so(m + 1)
    <2> HIDE DEF so
    <2>6. /\ Decoded(s) = [consumed |-> Len(s), done |-> FALSE, escape |-> FALSE, result |-> r]
          /\ s \in Seq(Byte) /\ Len(s) \in Nat
        BY <2>4 DEF r
    <2>7. u = s \o Stuffed(b)
        BY <2>5
    <2> HIDE DEF s, u
    <2>8. u \in Seq(Byte) /\ Decoded(u) = [consumed |-> Len(u), done |-> FALSE,
                                           escape |-> FALSE, result |-> Append(r, b)]
        <3>1. CASE b \notin Special
            <4>1. u = s \o <<b>>
                BY <2>7, <3>1 DEF Stuffed
            <4>2. u = Append(s, b) /\ Len(u) = Len(s) + 1 /\ u \in Seq(Byte)
                BY <2>1, <2>6, <4>1
            <4>3. Decoded(u) = DecodeByte(Decoded(s), b)
                BY <2>1, <2>6, <4>2, DecodedAppend
            <4>4. DecodeByte(Decoded(s), b) = [consumed |-> Len(s) + 1, done |-> FALSE,
                                               escape |-> FALSE, result |-> Append(r, b)]
                <5>1. b \in Byte \ Special
                    BY <2>1, <3>1
                <5>2. \A byte \in Byte \ Special :
                          DecodeByte([consumed |-> Len(s), done |-> FALSE, escape |-> FALSE,
                                      result |-> r], byte)
                              = [consumed |-> Len(s) + 1, done |-> FALSE, escape |-> FALSE,
                                 result |-> Append(r, byte)]
                    BY <2>1, <2>6, DecodeStep
                <5> QED BY <2>6, <5>1, <5>2, Zenon
            <4> QED BY <4>2, <4>3, <4>4
        <3>2. CASE b \in Special
            <4> DEFINE v == Append(s, Escape)
                       c == Toggle(b)
            <4>1. u = s \o <<Escape, c>>
                BY <2>7, <3>2 DEF Stuffed
            <4>2. c \in Byte \ Special /\ Toggle(c) = b
                BY <1>1, <2>1, <3>2, ByteAssumption
            <4> HIDE DEF c
            <4>3. /\ u = Append(v, c) /\ Len(v) = Len(s) + 1 /\ Len(u) = Len(s) + 1 + 1
                  /\ v \in Seq(Byte) /\ u \in Seq(Byte)
                BY <1>1, <2>6, <4>1, <4>2
            <4>4. Decoded(v) = DecodeByte(Decoded(s), Escape)
                BY <1>1, <2>6, DecodedAppend
            <4> HIDE DEF v
            <4>5. Decoded(v) = [consumed |-> Len(s) + 1, done |-> FALSE,
                                escape |-> TRUE, result |-> r]
                BY <2>1, <2>6, <4>4, DecodeStep, Zenon
            <4>6. Decoded(u) = DecodeByte(Decoded(v), c)
                BY <4>2, <4>3, DecodedAppend
            <4>7. Len(s) + 1 \in Nat
                BY <2>6
            <4>8. DecodeByte(Decoded(v), c) = [consumed |-> Len(s) + 1 + 1, done |-> FALSE,
                                               escape |-> FALSE, result |-> Append(r, Toggle(c))]
                <5>1. \A byte \in Byte \ Special :
                          DecodeByte([consumed |-> Len(s) + 1, done |-> FALSE, escape |-> TRUE,
                                      result |-> r], byte)
                              = [consumed |-> Len(s) + 1 + 1, done |-> FALSE, escape |-> FALSE,
                                 result |-> Append(r, Toggle(byte))]
                    BY <2>1, <4>7, DecodeStep
                <5> QED BY <4>2, <4>5, <5>1, Zenon
            <4> QED BY <4>2, <4>3, <4>6, <4>8
        <3> QED BY <3>1, <3>2
    <2>9. so(m + 1) \in Seq(Byte) /\ Decoded(so(m + 1)) = State(m + 1)
        BY <2>2, <2>8 DEF u
    <2> QED BY <2>1, <2>9
<1>4. k \in T
    <2> HIDE DEF T
    <2>1. Len(body) \in Nat
        OBVIOUS
    <2> DEFINE S == T \cap (0 .. k)
    <2>2. 0 \in S
        BY <1>2
    <2>3. \A m \in 0 .. k : m \in S /\ m # k => m + 1 \in S
        <3> SUFFICES ASSUME NEW m \in 0 .. k, m \in S, m # k PROVE m + 1 \in S
            OBVIOUS
        <3>1. m \in 0 .. Len(body) /\ m \in T /\ m # Len(body) /\ m + 1 \in 0 .. k
            BY <2>1
        <3> QED BY <1>3, <3>1
    <2>4. k \in S
        <3> HIDE DEF S
        <3> QED BY <2>2, <2>3, CountingUp
    <2> QED BY <2>4
<1> QED BY <1>4

(* A checksum of zeros is one of the same length.                          *)
LEMMA EncoderCrcType ==
    ASSUME NEW data, Sendable(data)
    PROVE  EncoderCrc(data) \in Seq(Byte) /\ Len(EncoderCrc(data)) = CrcSize
<1>1. CrcSize \in Nat /\ 0 \in Byte
    BY ByteAssumption DEF Sendable, Byte
<1>2. CASE CrcDefault
    BY <1>1, <1>2 DEF EncoderCrc
<1>3. CASE ~ CrcDefault
    BY <1>3 DEF EncoderCrc, Sendable
<1> QED BY <1>2, <1>3

(* decode finds the payload that encode wrote, and consumes every byte, in *)
(* every setting.                                                          *)
LEMMA DecodeReadsBack ==
    ASSUME NEW data, Sendable(data), data # <<>>
    PROVE  Decode(Encode(data)) = [consumed |-> Len(Encode(data)), payload |-> <<data>>]
<1> DEFINE body == data \o EncoderCrc(data)
           bytes == <<Flag>> \o StuffedAll(body)
<1>1. /\ data \in Seq(Byte) /\ EncoderCrc(data) \in Seq(Byte) /\ Len(EncoderCrc(data)) = CrcSize
      /\ Len(data) \in Nat /\ Len(data) > 0 /\ CrcSize \in Nat
    BY EmptySeq, EncoderCrcType DEF Sendable
<1>2. body \in Seq(Byte) /\ Len(body) = Len(data) + CrcSize /\ Len(body) > 0
    <2>1. body \in Seq(Byte) /\ Len(body) = Len(data) + Len(EncoderCrc(data))
        BY <1>1, ConcatProperties
    <2> HIDE DEF body
    <2> QED BY <1>1, <2>1
<1>3. SubSeq(body, 1, Len(body)) = body
    <2> HIDE DEF body
    <2> QED BY <1>2
<1>4. /\ bytes \in Seq(Byte)
      /\ Decoded(bytes) = [consumed |-> Len(bytes), done |-> FALSE, escape |-> FALSE,
                           result |-> body]
    <2> HIDE DEF body
    <2>1. Len(body) \in Nat /\ Len(body) <= Len(body)
        BY <1>2
    <2> QED BY <1>2, <1>3, <2>1, DecodedBody
<1>5. Stripped(body) = data /\ Verified(body)
    <2>1. SubSeq(body, 1, Len(data)) = data
        BY <1>1
    <2>2. SubSeq(body, Len(data) + 1, Len(body)) = EncoderCrc(data)
        BY <1>1
    <2>3. Len(body) - CrcSize = Len(data) /\ Len(body) >= CrcSize
        BY <1>1, <1>2
    <2> HIDE DEF body
    <2> QED BY <2>1, <2>2, <2>3 DEF Stripped, Verified
<1>6. body # <<>>
    <2> HIDE DEF body
    <2> QED BY <1>2
<1> HIDE DEF body
<1>7. Encode(data) = Append(bytes, Flag) /\ Len(Encode(data)) = Len(bytes) + 1
    <2>1. Encode(data) = bytes \o <<Flag>>
        BY DEF Encode, Framed, body
    <2> HIDE DEF bytes
    <2> QED BY <1>4, <2>1
<1> HIDE DEF bytes
<1>8. Flag \in Byte
    BY ByteAssumption DEF Special
<1>9. Decoded(Encode(data)) = [consumed |-> Len(bytes) + 1, done |-> TRUE, escape |-> FALSE,
                              result |-> body]
    <2>1. Decoded(Encode(data)) = DecodeByte(Decoded(bytes), Flag)
        BY <1>4, <1>7, <1>8, DecodedAppend
    <2> DEFINE d == Decoded(bytes)
               e == DecodeByte(d, Flag)
    <2>2. d \in DecodeState /\ ~ d.done /\ d.consumed = Len(bytes) /\ ~ d.escape /\ d.result = body
        BY <1>2, <1>4 DEF DecodeState
    <2> HIDE DEF d
    <2>3. e \in DecodeState
        BY <1>8, <2>2, DecodeByteType
    <2>4. e.consumed = Len(bytes) + 1 /\ e.done /\ ~ e.escape /\ e.result = body
        BY <1>6, <1>8, <2>2, DecodeByteFields
    <2> HIDE DEF e
    <2> QED BY <2>1, <2>3, <2>4, SameDecodeState DEF d, e
<1> QED BY <1>5, <1>7, <1>9 DEF Decode

===============================================================================
