--------------------------- MODULE FrameCodecProofs ---------------------------
(***************************************************************************)
(* Proofs about the codec and the parser, for any bytes: what is written   *)
(* as a frame is read back as the packet it was, nothing but a frame is    *)
(* read as a packet, and a live record's payload as the measurement it was *)
(* made of. FrameStream's device states both formats on its own (closed    *)
(* sums, a table of fields), so none of these facts is about the library   *)
(* agreeing with itself.                                                   *)
(*                                                                         *)
(* The checksum is a loop over the bytes, here a recursive function, and   *)
(* so are the bytes of messages sent one after the other. The provers have *)
(* no induction over an operator; the first section has it over a set, and *)
(* from it that a function may be defined by recursion over an interval    *)
(* and where its values lie.                                               *)
(***************************************************************************)
EXTENDS FrameStream, SequenceTheorems, WellFoundedInduction, TLAPS

------------------------------------------------------------------------------
(* Induction and recursion.                                                 *)

(* Every set of natural numbers has a least element.                        *)
LEMMA Least ==
  ASSUME NEW T, T \subseteq Nat, T # {}
  PROVE  \E n \in T : \A m \in T : n <= m
<1>1. IsWellFoundedOn({ss \in Nat \X Nat : ss[1] < ss[2]}, Nat)
  BY NatLessThanWellFounded DEF OpToRel
<1>2. PICK n \in T : \A m \in T : ~ (<<m, n>> \in {ss \in Nat \X Nat : ss[1] < ss[2]})
  BY <1>1, WFMin
<1>3. ASSUME NEW m \in T PROVE ~(m < n)
  <2>. DEFINE p == <<m, n>>
  <2>1. p \in Nat \X Nat /\ p[1] = m /\ p[2] = n
    OBVIOUS
  <2>2. p \notin {ss \in Nat \X Nat : ss[1] < ss[2]}
    BY <1>2
  <2>. HIDE DEF p
  <2>. QED
    BY <2>1, <2>2
<1>. QED
  BY <1>3

(* Induction, over a set in place of a predicate.                           *)
LEMMA Induction ==
  ASSUME NEW S, 0 \in S, \A n \in Nat : n \in S => n + 1 \in S
  PROVE  Nat \subseteq S
<1>. SUFFICES ASSUME Nat \ S # {} PROVE FALSE
  OBVIOUS
<1>1. PICK n \in Nat \ S : \A m \in Nat \ S : n <= m
  BY Least
<1>2. n # 0 /\ n - 1 \in Nat
  BY <1>1
<1>3. n - 1 \in S
  BY <1>1, <1>2
<1>4. n - 1 + 1 \in S
  BY <1>2, <1>3
<1>. QED BY <1>1, <1>4

\* The i-th value is computed from the one before it.
IsStep(step, N, V) == step \in [V \X (1 .. N) -> V]
\* f is computed by taking the steps 1 to N from v0.
Recursive(f, N, V, v0, step) ==
  f \in [0 .. N -> V] /\ f[0] = v0 /\ \A i \in 1 .. N : f[i] = step[<<f[i - 1], i>>]

(* A function may be defined by recursion over an interval.                 *)
LEMMA Recursion ==
  ASSUME NEW N \in Nat, NEW V, NEW v0 \in V, NEW step, IsStep(step, N, V)
  PROVE  \E f : Recursive(f, N, V, v0, step)
<1>. USE DEF IsStep, Recursive
<1>. DEFINE Defined(n, f) == f[0] = v0 /\ \A i \in 1 .. n : f[i] = step[<<f[i - 1], i>>]
            S == {n \in Nat : n <= N => \E f \in [0 .. n -> V] : Defined(n, f)}
<1>1. 0 \in S
  <2>1. [i \in 0 .. 0 |-> v0] \in [0 .. 0 -> V] /\ Defined(0, [i \in 0 .. 0 |-> v0])
    OBVIOUS
  <2>. QED
    BY <2>1
<1>2. ASSUME NEW n \in Nat, n \in S
      PROVE  n + 1 \in S
  <2>. SUFFICES ASSUME n + 1 <= N
                PROVE  \E f \in [0 .. n + 1 -> V] : Defined(n + 1, f)
    OBVIOUS
  <2>1. PICK f \in [0 .. n -> V] : Defined(n, f)
    BY <1>2
  <2>. DEFINE g == [i \in 0 .. n + 1 |-> IF i = n + 1 THEN step[<<f[n], n + 1>>] ELSE f[i]]
  <2>2. step[<<f[n], n + 1>>] \in V
    BY <2>1
  <2>3. g \in [0 .. n + 1 -> V]
    BY <2>1, <2>2
  <2>4. g[0] = v0
    BY <2>1
  <2>5. ASSUME NEW i \in 1 .. n + 1 PROVE g[i] = step[<<g[i - 1], i>>]
    <3>1. g[i - 1] = f[i - 1]
      BY <2>5
    <3>2. CASE i = n + 1
      <4>1. g[n + 1] = step[<<f[n], n + 1>>] /\ i - 1 = n
        BY <3>2
      <4>. HIDE DEF g
      <4>. QED
        BY <3>1, <3>2, <4>1
    <3>3. CASE i \in 1 .. n
      BY <2>1, <3>1, <3>3
    <3>. QED
      BY <2>5, <3>2, <3>3
  <2>. QED
    BY <2>3, <2>4, <2>5
<1>3. N \in S
  <2>. HIDE DEF S
  <2>. QED
    BY <1>1, <1>2, Induction
<1>. QED
  BY <1>3

(* Whatever is so defined has its values where the step has them.           *)
LEMMA RecursionType ==
  ASSUME NEW N \in Nat, NEW V, NEW f, f[0] \in V,
         \A i \in 1 .. N : f[i - 1] \in V => f[i] \in V
  PROVE  \A i \in 0 .. N : f[i] \in V
<1>. DEFINE S == {n \in Nat : n <= N => f[n] \in V}
<1>1. 0 \in S
  OBVIOUS
<1>2. ASSUME NEW n \in Nat, n \in S
      PROVE  n + 1 \in S
  <2>1. n + 1 <= N => n + 1 \in 1 .. N /\ n + 1 - 1 = n /\ n <= N
    OBVIOUS
  <2>2. n + 1 <= N => f[n + 1] \in V
    BY <1>2, <2>1
  <2>. QED
    BY <2>2
<1>3. Nat \subseteq S
  <2>. HIDE DEF S
  <2>. QED
    BY <1>1, <1>2, Induction
<1>. QED
  BY <1>3

------------------------------------------------------------------------------
(* The checksum.                                                            *)

(* Sum() adds one term after the other.                                     *)
LEMMA SumRuns ==
  ASSUME NEW term \in Seq(Int)
  PROVE  \E f \in [0 .. Len(term) -> Int] :
           /\ f[0] = 0 /\ \A i \in 1 .. Len(term) : f[i] = f[i - 1] + term[i]
           /\ Sum(term) = f[Len(term)]
<1>. DEFINE N == Len(term)
            Is(f) == f = [i \in 0 .. Len(term) |-> IF i = 0 THEN 0 ELSE f[i - 1] + term[i]]
            upTo == CHOOSE f : Is(f)
<1>1. \E f : Is(f)
  <2>. DEFINE V == Int
              step == [p \in V \X (1 .. N) |-> p[1] + term[p[2]]]
  <2>1. N \in Nat /\ 0 \in V /\ IsStep(step, N, V)
    BY DEF IsStep
  <2>2. PICK f : Recursive(f, N, V, 0, step)
    <3>. HIDE DEF step, N, V
    <3>. QED
      BY <2>1, Recursion
  <2>3. f \in [0 .. N -> Int] /\ f[0] = 0 /\ \A i \in 1 .. N : f[i] = step[<<f[i - 1], i>>]
    <3>. HIDE DEF step
    <3>. QED
      BY <2>2 DEF Recursive
  <2>4. ASSUME NEW i \in 1 .. N PROVE f[i] = f[i - 1] + term[i]
    <3>1. f[i - 1] \in Int
      BY <2>1, <2>3
    <3>2. step[<<f[i - 1], i>>] = f[i - 1] + term[i]
      BY <3>1
    <3>. QED
      BY <2>3, <3>2
  <2>5. \A i \in 0 .. N : f[i] = IF i = 0 THEN 0 ELSE f[i - 1] + term[i]
    BY <2>1, <2>3, <2>4
  <2>6. f = [i \in 0 .. N |-> f[i]]
    BY <2>3
  <2>7. Is(f)
    BY <2>5, <2>6
  <2>. QED
    BY <2>7
<1>2. Is(upTo)
  BY <1>1
<1>3. Sum(term) = upTo[N]
  BY DEF Sum
<1>. HIDE DEF upTo
<1>4. N \in Nat /\ upTo[0] = 0 /\ \A i \in 1 .. N : upTo[i] = upTo[i - 1] + term[i]
  BY <1>2, SMTT(30)
<1>5. \A i \in 0 .. N : upTo[i] \in Int
  <2>1. upTo[0] \in Int /\ \A i \in 1 .. N : upTo[i - 1] \in Int => upTo[i] \in Int
    BY <1>4
  <2>. HIDE DEF N
  <2>. QED
    BY <1>4, <2>1, RecursionType
<1>6. upTo = [i \in 0 .. N |-> upTo[i]]
  BY <1>2
<1>7. upTo \in [0 .. N -> Int]
  BY <1>5, <1>6
<1>. QED
  BY <1>3, <1>4, <1>7

(* ubxChecksum() adds one byte after the other.                             *)
LEMMA ChecksumRuns ==
  ASSUME NEW bytes \in Seq(Byte)
  PROVE  \E f : /\ f \in [0 .. Len(bytes) -> Byte \X Byte]
                /\ f[0] = <<0, 0>> /\ \A i \in 1 .. Len(bytes) : f[i] = Add(f[i - 1], bytes[i])
                /\ ubxChecksum(bytes) = f[Len(bytes)]
<1>. DEFINE N == Len(bytes)
            V == Byte \X Byte
            add == [s \in (Byte \X Byte) \X Byte |-> Add(s[1], s[2])]
            Is(f) == f = [i \in 0 .. Len(bytes) |->
                            IF i = 0 THEN <<0, 0>> ELSE add[<<f[i - 1], bytes[i]>>]]
            ckAfter == CHOOSE f : Is(f)
<1>1. ASSUME NEW ck \in V, NEW byte \in Byte
      PROVE  add[<<ck, byte>>] = Add(ck, byte) /\ Add(ck, byte) \in V
  <2>1. <<ck, byte>> \in (Byte \X Byte) \X Byte
    OBVIOUS
  <2>2. add[<<ck, byte>>] = Add(ck, byte)
    BY <2>1
  <2>3. PICK a \in Byte, b \in Byte : ck = <<a, b>>
    OBVIOUS
  <2>. DEFINE c == (a + byte) % 256
              d == (b + c) % 256
  <2>4. c \in Byte /\ d \in Byte
    BY DEF Byte
  <2>5. Add(ck, byte) = <<c, d>>
    BY <2>3 DEF Add
  <2>6. Add(ck, byte) \in V
    BY <2>4, <2>5
  <2>. QED
    BY <2>2, <2>6
<1>2. N \in Nat /\ <<0, 0>> \in V /\ \A i \in 1 .. N : bytes[i] \in Byte
  <2>1. 0 \in Byte
    BY DEF Byte
  <2>. QED
    BY <2>1
<1>3. \E f : Is(f)
  <2>. DEFINE step == [p \in V \X (1 .. N) |-> add[<<p[1], bytes[p[2]]>>]]
  <2>. HIDE DEF V, add
  <2>1. IsStep(step, N, V)
    BY <1>1, <1>2 DEF IsStep
  <2>2. PICK f : Recursive(f, N, V, <<0, 0>>, step)
    <3>. HIDE DEF step, N
    <3>. QED
      BY <1>2, <2>1, Recursion
  <2>3. f \in [0 .. N -> V] /\ f[0] = <<0, 0>> /\ \A i \in 1 .. N : f[i] = step[<<f[i - 1], i>>]
    <3>. HIDE DEF step
    <3>. QED
      BY <2>2 DEF Recursive
  <2>4. ASSUME NEW i \in 1 .. N PROVE f[i] = add[<<f[i - 1], bytes[i]>>]
    <3>1. f[i - 1] \in V
      BY <1>2, <2>3
    <3>2. step[<<f[i - 1], i>>] = add[<<f[i - 1], bytes[i]>>]
      BY <3>1
    <3>. QED
      BY <2>3, <3>2
  <2>5. \A i \in 0 .. N : f[i] = IF i = 0 THEN <<0, 0>> ELSE add[<<f[i - 1], bytes[i]>>]
    BY <1>2, <2>3, <2>4
  <2>6. f = [i \in 0 .. N |-> f[i]]
    BY <2>3
  <2>7. Is(f)
    BY <2>5, <2>6, Zenon
  <2>. QED
    BY <2>7
<1>4. Is(ckAfter)
  BY <1>3, Zenon
<1>5. ubxChecksum(bytes) = ckAfter[N]
  BY DEF ubxChecksum
<1>. HIDE DEF ckAfter, add, V
<1>6. /\ ckAfter[0] = <<0, 0>> /\ \A i \in 1 .. N : ckAfter[i] = add[<<ckAfter[i - 1], bytes[i]>>]
      /\ ckAfter = [i \in 0 .. N |-> ckAfter[i]]
  <2>1. /\ DOMAIN ckAfter = 0 .. N
        /\ \A i \in 0 .. N : ckAfter[i] = IF i = 0 THEN <<0, 0>> ELSE add[<<ckAfter[i - 1], bytes[i]>>]
    BY <1>4
  <2>2. ckAfter = [i \in DOMAIN ckAfter |-> ckAfter[i]]
    BY <1>4
  <2>3. 0 \in 0 .. N /\ \A i \in 1 .. N : i \in 0 .. N /\ i # 0
    BY <1>2
  <2>. QED
    BY <2>1, <2>2, <2>3
<1>7. \A i \in 0 .. N : ckAfter[i] \in V
  <2>1. ckAfter[0] \in V /\ \A i \in 1 .. N : ckAfter[i - 1] \in V => ckAfter[i] \in V
    BY <1>1, <1>2, <1>6
  <2>. HIDE DEF N
  <2>. QED
    BY <1>2, <2>1, RecursionType
<1>8. ASSUME NEW i \in 1 .. N
      PROVE  ckAfter[i] = Add(ckAfter[i - 1], bytes[i])
  <2>1. ckAfter[i - 1] \in V /\ bytes[i] \in Byte
    BY <1>2, <1>7
  <2>. QED
    BY <1>1, <1>6, <2>1
<1>9. ckAfter \in [0 .. N -> V]
  BY <1>6, <1>7
<1>. QED
  BY <1>5, <1>6, <1>8, <1>9 DEF V
(* A sum modulo 256 may be reduced anywhere.                                *)
LEMMA ModSum ==
  ASSUME NEW x \in Int, NEW y \in Int
  PROVE  /\ ((x % 256) + y) % 256 = (x + y) % 256
         /\ ((x % 256) + (y % 256)) % 256 = (x + y) % 256
OBVIOUS

(* A product with one weight less.                                          *)
LEMMA OneWeightLess ==
  ASSUME NEW m \in Int, NEW s \in Int, NEW b \in Int
  PROVE  (m - 1) * (s + b) = m * s + m * b - s - b
OBVIOUS

(* The encoder's and decoder's running sums are the Fletcher sums.          *)
LEMMA ChecksumIsFletcher ==
  ASSUME NEW bytes \in Seq(Byte)
  PROVE  LET n == Len(bytes)
             weighted == [i \in 1 .. n |-> (n + 1 - i) * bytes[i]]
         IN  ubxChecksum(bytes) = <<Sum(bytes) % 256, Sum(weighted) % 256>>
<1>. DEFINE n == Len(bytes)
            weighted == [i \in 1 .. n |-> (n + 1 - i) * bytes[i]]
<1>1. n \in Nat /\ bytes \in Seq(Int) /\ \A i \in 1 .. n : bytes[i] \in Int
  <2>1. Byte \subseteq Int
    BY DEF Byte
  <2>2. bytes \in Seq(Int)
    BY <2>1, SeqMonotonic
  <2>. QED
    BY <2>2
<1>2. weighted \in Seq(Int) /\ Len(weighted) = n /\ \A i \in 1 .. n : weighted[i] = (n + 1 - i) * bytes[i]
  BY <1>1
<1>3. PICK ck : /\ ck \in [0 .. n -> Byte \X Byte]
                /\ ck[0] = <<0, 0>> /\ \A i \in 1 .. n : ck[i] = Add(ck[i - 1], bytes[i])
                /\ ubxChecksum(bytes) = ck[n]
  BY ChecksumRuns
<1>4. PICK s \in [0 .. n -> Int] :
        s[0] = 0 /\ (\A i \in 1 .. n : s[i] = s[i - 1] + bytes[i]) /\ Sum(bytes) = s[n]
  BY <1>1, SumRuns
<1>5. PICK w \in [0 .. n -> Int] :
        w[0] = 0 /\ (\A i \in 1 .. n : w[i] = w[i - 1] + (n + 1 - i) * bytes[i]) /\ Sum(weighted) = w[n]
  <2>. HIDE DEF n, weighted
  <2>1. PICK w \in [0 .. n -> Int] :
          w[0] = 0 /\ (\A i \in 1 .. n : w[i] = w[i - 1] + weighted[i]) /\ Sum(weighted) = w[n]
    BY <1>2, SumRuns
  <2>. QED
    BY <1>2, <2>1
<1>. HIDE DEF n, weighted
<1>. DEFINE S == {k \in Nat : k <= n => ck[k] = <<s[k] % 256, (w[k] - (n - k) * s[k]) % 256>>}
<1>6. 0 \in S
  <2>1. (n - 0) * 0 = 0
    BY <1>1
  <2>. QED
    BY <1>3, <1>4, <1>5, <2>1
<1>7. ASSUME NEW k \in Nat, k \in S
      PROVE  k + 1 \in S
  <2>. SUFFICES ASSUME k + 1 <= n
                PROVE  ck[k + 1] = <<s[k + 1] % 256, (w[k + 1] - (n - (k + 1)) * s[k + 1]) % 256>>
    OBVIOUS
  <2>. DEFINE b == bytes[k + 1]
              m == n - k
              t == w[k] - m * s[k]
  <2>1. /\ k + 1 \in 1 .. n /\ k + 1 - 1 = k /\ k \in 0 .. n /\ b \in Int /\ m \in Int
        /\ s[k] \in Int /\ w[k] \in Int
    BY <1>1
  <2>2. t \in Int /\ m * b \in Int /\ m * s[k] \in Int
    BY <2>1
  <2>3. s[k + 1] = s[k] + b /\ w[k + 1] = w[k] + m * b
    <3>1. n + 1 - (k + 1) = m
      BY <1>1
    <3>. QED
      BY <1>4, <1>5, <2>1, <3>1
  <2>4. ck[k] = <<s[k] % 256, t % 256>>
    BY <1>7, <2>1
  <2>5. ck[k + 1] = Add(ck[k], b)
    BY <1>3, <2>1
  <2>6. w[k + 1] - (n - (k + 1)) * s[k + 1] = t + (s[k] + b)
    <3>1. n - (k + 1) = m - 1
      BY <1>1
    <3>2. (m - 1) * (s[k] + b) = m * s[k] + m * b - s[k] - b
      <4>. HIDE DEF m, b
      <4>. QED
        BY <2>1, OneWeightLess
    <3>. HIDE DEF m, b
    <3>. QED
      BY <2>1, <2>2, <2>3, <3>1, <3>2, SMTT(30)
  <2>. HIDE DEF t, b, m
  <2>7. ((s[k] % 256) + b) % 256 = (s[k] + b) % 256
    BY <2>1, ModSum
  <2>8. Add(<<s[k] % 256, t % 256>>, b) = <<(s[k] + b) % 256, (t + (s[k] + b)) % 256>>
    <3>. DEFINE u == s[k] + b
                x == s[k] % 256
                y == t % 256
    <3>1. u \in Int /\ x \in Int /\ y \in Int
      BY <2>1, <2>2
    <3>4. (x + b) % 256 = u % 256
      BY <2>7
    <3>2. Add(<<x, y>>, b) = <<u % 256, (y + (u % 256)) % 256>>
      <4>. HIDE DEF x, y, u
      <4>. QED
        BY <3>4 DEF Add
    <3>3. ((t % 256) + (u % 256)) % 256 = (t + u) % 256
      <4>. HIDE DEF u
      <4>. QED
        BY <2>2, <3>1, ModSum
    <3>. QED
      BY <3>2, <3>3
  <2>. QED
    BY <2>3, <2>4, <2>5, <2>6, <2>8
<1>8. Nat \subseteq S
  <2>. HIDE DEF S
  <2>. QED
    BY <1>6, <1>7, Induction
<1>9. ck[n] = <<s[n] % 256, (w[n] - (n - n) * s[n]) % 256>>
  BY <1>1, <1>8
<1>10. w[n] - (n - n) * s[n] = w[n]
  BY <1>1
<1>. QED
  BY <1>3, <1>4, <1>5, <1>9, <1>10 DEF n, weighted

------------------------------------------------------------------------------
(* Frames.                                                                  *)

\* Class, id, length and payload: what the checksum covers.
Body(pkt) ==
  <<pkt.cls, pkt.id, Len(pkt.payload) % 256, Len(pkt.payload) \div 256>> \o pkt.payload

(* What a packet is made of.                                                *)
LEMMA PacketParts ==
  ASSUME NEW pkt \in UbxBytes
  PROVE  pkt.payload \in Seq(Byte) /\ Len(pkt.payload) \in Nat /\ pkt.cls \in Byte /\ pkt.id \in Byte
<1>1. pkt.payload \in Seq(Byte) /\ pkt.cls \in Byte /\ pkt.id \in Byte
  BY DEF UbxBytes
<1>. QED
  BY <1>1

(* The body's bytes, one by one.                                            *)
LEMMA BodyBytes ==
  ASSUME NEW pkt \in UbxBytes, Len(pkt.payload) < 256 * 256
  PROVE  /\ Body(pkt) \in Seq(Byte) /\ Len(Body(pkt)) = Len(pkt.payload) + 4
         /\ Body(pkt)[1] = pkt.cls /\ Body(pkt)[2] = pkt.id
         /\ Body(pkt)[3] = Len(pkt.payload) % 256 /\ Body(pkt)[4] = Len(pkt.payload) \div 256
         /\ \A i \in 1 .. Len(pkt.payload) : Body(pkt)[i + 4] = pkt.payload[i]
<1>. DEFINE n == Len(pkt.payload)
            p == pkt.payload
            h == <<pkt.cls, pkt.id, n % 256, n \div 256>>
<1>1. /\ p \in Seq(Byte) /\ n \in Nat /\ n < 256 * 256 /\ pkt.cls \in Byte /\ pkt.id \in Byte
      /\ Len(p) = n
  BY PacketParts
<1>4. Body(pkt) = h \o p
  BY DEF Body
<1>. HIDE DEF n, p
<1>2. n % 256 \in Byte /\ n \div 256 \in Byte
  BY <1>1 DEF Byte
<1>3. /\ h \in Seq(Byte) /\ Len(h) = 4
      /\ h[1] = pkt.cls /\ h[2] = pkt.id /\ h[3] = n % 256 /\ h[4] = n \div 256
  BY <1>1, <1>2
<1>. HIDE DEF h
<1>5. /\ h \o p \in Seq(Byte) /\ Len(h \o p) = 4 + n
      /\ \A i \in 1 .. 4 + n : (h \o p)[i] = IF i <= 4 THEN h[i] ELSE p[i - 4]
  <2>0. h \in Seq(Byte) /\ p \in Seq(Byte)
    BY <1>1, <1>3
  <2>1. /\ h \o p \in Seq(Byte) /\ Len(h \o p) = Len(h) + Len(p)
        /\ \A i \in 1 .. Len(h) + Len(p) :
             (h \o p)[i] = IF i <= Len(h) THEN h[i] ELSE p[i - Len(h)]
    BY <2>0, ConcatProperties, Zenon
  <2>. QED
    BY <1>1, <1>3, <2>1
<1>6. \A i \in 1 .. n : i + 4 \in 1 .. 4 + n /\ ~(i + 4 <= 4) /\ i + 4 - 4 = i
  BY <1>1
<1>7. 1 \in 1 .. 4 + n /\ 2 \in 1 .. 4 + n /\ 3 \in 1 .. 4 + n /\ 4 \in 1 .. 4 + n
  BY <1>1
<1>8. /\ Body(pkt) \in Seq(Byte) /\ Len(Body(pkt)) = n + 4
      /\ Body(pkt)[1] = pkt.cls /\ Body(pkt)[2] = pkt.id
      /\ Body(pkt)[3] = n % 256 /\ Body(pkt)[4] = n \div 256
  BY <1>1, <1>3, <1>4, <1>5, <1>7
<1>9. \A i \in 1 .. n : Body(pkt)[i + 4] = p[i]
  BY <1>4, <1>5, <1>6
<1>. QED
  BY <1>8, <1>9 DEF n, p

(* A frame ends in its body's checksum.                                     *)
LEMMA FrameEndsInChecksum ==
  ASSUME NEW pkt \in UbxBytes, Len(pkt.payload) < 256 * 256
  PROVE  Framed(pkt) = <<181, 98>> \o Body(pkt) \o ubxChecksum(Body(pkt))
<1>. DEFINE n == Len(pkt.payload)
            body == Body(pkt)
            m == Len(body)
            weighted == [i \in 1 .. n + 4 |-> (n + 5 - i) * body[i]]
            w == [i \in 1 .. m |-> (m + 1 - i) * body[i]]
<1>1. body \in Seq(Byte) /\ m = n + 4 /\ n \in Nat
  BY PacketParts, BodyBytes, Zenon
<1>2. weighted = w
  <2>. HIDE DEF body, n, m
  <2>1. \A i \in 1 .. n + 4 : n + 5 - i = m + 1 - i
    BY <1>1
  <2>. QED
    BY <1>1, <2>1
<1>3. ubxChecksum(body) = <<Sum(body) % 256, Sum(w) % 256>>
  <2>. HIDE DEF body
  <2>. QED
    BY <1>1, ChecksumIsFletcher
<1>4. Framed(pkt) = <<181, 98>> \o body \o <<Sum(body) % 256, Sum(weighted) % 256>>
  BY DEF Framed, Body
<1>. QED
  <2>. HIDE DEF body, w, weighted
  <2>1. Framed(pkt) = <<181, 98>> \o body \o ubxChecksum(body)
    BY <1>2, <1>3, <1>4
  <2>. QED
    BY <2>1 DEF body

(* What ubxEncode() writes is a frame, and it writes every packet that fits.*)
THEOREM EncodeFrames ==
  ASSUME NEW pkt \in UbxBytes, NEW room \in Nat
  PROVE  ubxEncode(pkt, room) =
           IF Len(pkt.payload) <= UBX_MAX_PAYLOAD /\ UBX_FRAME_OVERHEAD + Len(pkt.payload) <= room
             THEN Framed(pkt) ELSE <<>>
<1>1. Len(pkt.payload) \in Nat
  BY PacketParts
<1>5. UBX_MAX_PAYLOAD \in Nat /\ UBX_MAX_PAYLOAD < 256 * 256
  BY UbxCodecAssumption
<1>2. CASE Len(pkt.payload) <= UBX_MAX_PAYLOAD
  <2>1. Framed(pkt) = <<181, 98>> \o Body(pkt) \o ubxChecksum(Body(pkt))
    <3>1. Len(pkt.payload) < 256 * 256
      BY <1>1, <1>5, <1>2
    <3>. QED
      BY <3>1, FrameEndsInChecksum, Zenon
  <2>. QED
    BY <1>1, <1>5, <1>2, <2>1 DEF ubxEncode, Body, UBX_SYNC_1, UBX_SYNC_2, UBX_FRAME_OVERHEAD
<1>3. CASE ~(Len(pkt.payload) <= UBX_MAX_PAYLOAD)
  BY <1>1, <1>3, <1>5 DEF ubxEncode
<1>. QED
  BY <1>2, <1>3

(* A checksum is two bytes.                                                 *)
LEMMA ChecksumType ==
  ASSUME NEW bytes \in Seq(Byte)
  PROVE  ubxChecksum(bytes) \in Byte \X Byte
<1>1. PICK f : /\ f \in [0 .. Len(bytes) -> Byte \X Byte]
               /\ f[0] = <<0, 0>> /\ \A i \in 1 .. Len(bytes) : f[i] = Add(f[i - 1], bytes[i])
               /\ ubxChecksum(bytes) = f[Len(bytes)]
  BY ChecksumRuns
<1>2. Len(bytes) \in 0 .. Len(bytes)
  OBVIOUS
<1>. QED
  BY <1>1, <1>2

\* A frame, byte by byte.
IsFrame(bytes, pkt) ==
  LET n == Len(pkt.payload)
  IN  /\ bytes \in Seq(Byte) /\ Len(bytes) = n + 8
      /\ bytes[1] = UBX_SYNC_1 /\ bytes[2] = UBX_SYNC_2
      /\ \A i \in 1 .. n + 4 : bytes[i + 2] = Body(pkt)[i]
      /\ <<bytes[n + 7], bytes[n + 8]>> = ubxChecksum(Body(pkt))

(* The device's frame is one byte for byte: both sync bytes, the body at the*)
(* third byte, and the two bytes of its checksum at the end.                *)
LEMMA FrameBytes ==
  ASSUME NEW pkt \in UbxBytes, Len(pkt.payload) < 256 * 256
  PROVE  IsFrame(Framed(pkt), pkt)
<1>. DEFINE n == Len(pkt.payload)
            h == <<181, 98>>
            b == Body(pkt)
            c == ubxChecksum(Body(pkt))
            F == Framed(pkt)
<1>1. n \in Nat /\ b \in Seq(Byte) /\ Len(b) = n + 4
  BY PacketParts, BodyBytes
<1>2. h \in Seq(Byte) /\ Len(h) = 2 /\ h[1] = UBX_SYNC_1 /\ h[2] = UBX_SYNC_2
  <2>1. 181 \in Byte /\ 98 \in Byte
    BY DEF Byte
  <2>. QED
    BY <2>1 DEF UBX_SYNC_1, UBX_SYNC_2
<1>3. c \in Seq(Byte) /\ Len(c) = 2 /\ c = <<c[1], c[2]>>
  <2>1. c \in Byte \X Byte
    BY <1>1, ChecksumType
  <2>2. PICK x \in Byte, y \in Byte : c = <<x, y>>
    BY <2>1
  <2>. QED
    BY <2>2
<1>4. F = h \o b \o c
  BY FrameEndsInChecksum
<1>. HIDE DEF h, b, c, n, F
<1>. DEFINE hb == h \o b
<1>5. /\ hb \in Seq(Byte) /\ Len(hb) = n + 6
      /\ \A i \in 1 .. n + 6 : hb[i] = IF i <= 2 THEN h[i] ELSE b[i - 2]
  <2>1. h \in Seq(Byte) /\ b \in Seq(Byte)
    BY <1>1, <1>2
  <2>2. /\ h \o b \in Seq(Byte) /\ Len(h \o b) = Len(h) + Len(b)
        /\ \A i \in 1 .. Len(h) + Len(b) : (h \o b)[i] = IF i <= Len(h) THEN h[i] ELSE b[i - Len(h)]
    BY <2>1, ConcatProperties, Zenon
  <2>. QED
    BY <1>1, <1>2, <2>2
<1>10. F = hb \o c
  BY <1>4
<1>. HIDE DEF hb
<1>6. /\ F \in Seq(Byte) /\ Len(F) = n + 8
      /\ \A i \in 1 .. n + 8 : F[i] = IF i <= n + 6 THEN hb[i] ELSE c[i - (n + 6)]
  <2>1. hb \in Seq(Byte) /\ c \in Seq(Byte)
    BY <1>3, <1>5
  <2>3. /\ hb \o c \in Seq(Byte) /\ Len(hb \o c) = Len(hb) + Len(c)
        /\ \A i \in 1 .. Len(hb) + Len(c) : (hb \o c)[i] = IF i <= Len(hb) THEN hb[i] ELSE c[i - Len(hb)]
    BY <2>1, ConcatProperties, Zenon
  <2>. QED
    BY <1>1, <1>3, <1>5, <1>10, <2>3
<1>7. F[1] = UBX_SYNC_1 /\ F[2] = UBX_SYNC_2
  <2>1. 1 \in 1 .. n + 8 /\ 1 <= n + 6 /\ 1 \in 1 .. n + 6 /\ 2 \in 1 .. n + 8 /\ 2 <= n + 6 /\ 2 \in 1 .. n + 6
    BY <1>1
  <2>2. F[1] = hb[1] /\ F[2] = hb[2]
    BY <1>6, <2>1
  <2>3. hb[1] = h[1] /\ hb[2] = h[2]
    BY <1>5, <2>1
  <2>. QED
    BY <1>2, <2>2, <2>3
<1>8. ASSUME NEW i \in 1 .. n + 4 PROVE F[i + 2] = b[i]
  <2>1. i + 2 \in 1 .. n + 8 /\ i + 2 <= n + 6 /\ i + 2 \in 1 .. n + 6 /\ ~(i + 2 <= 2) /\ i + 2 - 2 = i
    BY <1>1
  <2>2. F[i + 2] = hb[i + 2]
    BY <1>6, <2>1
  <2>3. hb[i + 2] = b[i + 2 - 2]
    BY <1>5, <2>1
  <2>. QED
    BY <2>1, <2>2, <2>3
<1>9. F[n + 7] = c[1] /\ F[n + 8] = c[2]
  <2>1. ASSUME NEW k \in 1 .. n + 8, NEW j \in 1 .. 2, k - (n + 6) = j PROVE F[k] = c[j]
    <3>1. ~(k <= n + 6)
      BY <1>1, <2>1
    <3>2. F[k] = c[k - (n + 6)]
      BY <1>6, <3>1
    <3>. QED
      BY <2>1, <3>2
  <2>2. PICK k \in 1 .. n + 8, m \in 1 .. n + 8 : k = n + 7 /\ m = n + 8
    BY <1>1
  <2>3. k - (n + 6) = 1 /\ m - (n + 6) = 2
    BY <1>1, <2>2
  <2>4. F[k] = c[1] /\ F[m] = c[2]
    BY <2>1, <2>3
  <2>. QED
    BY <2>2, <2>4
<1>. QED
  BY <1>3, <1>6, <1>7, <1>8, <1>9 DEF IsFrame, n, b, c, F

(* Decoding inverts framing: a frame of a packet that fits is accepted, and *)
(* gives back that packet.                                                  *)
THEOREM DecodeInvertsFraming ==
  ASSUME NEW pkt \in UbxBytes, Len(pkt.payload) <= UBX_MAX_PAYLOAD
  PROVE  ubxDecodes(Framed(pkt)) /\ ubxDecode(Framed(pkt)) = pkt
<1>. DEFINE n == Len(pkt.payload)
            F == Framed(pkt)
            b == Body(pkt)
            p == pkt.payload
<1>1. /\ n \in Nat /\ n <= UBX_MAX_PAYLOAD /\ UBX_MAX_PAYLOAD \in Nat /\ n < 256 * 256
      /\ p \in Seq(Byte) /\ Len(p) = n
  BY PacketParts, UbxCodecAssumption
<1>2. /\ F \in Seq(Byte) /\ Len(F) = n + 8
      /\ F[1] = UBX_SYNC_1 /\ F[2] = UBX_SYNC_2
      /\ \A i \in 1 .. n + 4 : F[i + 2] = b[i]
      /\ <<F[n + 7], F[n + 8]>> = ubxChecksum(b)
  BY <1>1, FrameBytes DEF IsFrame
<1>3. /\ b \in Seq(Byte) /\ Len(b) = n + 4 /\ b[1] = pkt.cls /\ b[2] = pkt.id
      /\ b[3] = n % 256 /\ b[4] = n \div 256 /\ \A i \in 1 .. n : b[i + 4] = p[i]
  BY <1>1, BodyBytes, ZenonT(60)
<1>4. pkt = [cls |-> pkt.cls, id |-> pkt.id, payload |-> p]
  BY DEF UbxBytes
<1>. HIDE DEF n, F, b, p
<1>5. F[3] = pkt.cls /\ F[4] = pkt.id /\ F[5] = n % 256 /\ F[6] = n \div 256
  <2>1. 1 \in 1 .. n + 4 /\ 2 \in 1 .. n + 4 /\ 3 \in 1 .. n + 4 /\ 4 \in 1 .. n + 4
    BY <1>1
  <2>2. F[1 + 2] = b[1] /\ F[2 + 2] = b[2] /\ F[3 + 2] = b[3] /\ F[4 + 2] = b[4]
    BY <1>2, <2>1
  <2>. QED
    BY <1>3, <2>2
<1>6. PayloadLen(F) = n
  BY <1>1, <1>5 DEF PayloadLen, U16
<1>7. SubSeq(F, 3, 6 + n) = b
  <2>. DEFINE t == SubSeq(F, 3, 6 + n)
  <2>1. 3 \in Int /\ 6 + n \in Int /\ \A i \in 3 .. 6 + n : F[i] \in Byte
    BY <1>1, <1>2
  <2>2. /\ t \in Seq(Byte) /\ Len(t) = n + 4 /\ \A i \in 1 .. n + 4 : t[i] = F[i + 2]
    BY <1>1, <1>2, <2>1
  <2>3. \A i \in 1 .. n + 4 : t[i] = b[i]
    BY <1>2, <2>2
  <2>. HIDE DEF t
  <2>4. t = b
    BY <1>3, <2>2, <2>3, SeqEqual
  <2>. QED
    BY <2>4 DEF t
<1>8. SubSeq(F, 7, 6 + n) = p
  <2>. DEFINE t == SubSeq(F, 7, 6 + n)
  <2>1. \A i \in 1 .. n : i + 4 \in 1 .. n + 4 /\ i + 4 + 2 = i + 6
    BY <1>1
  <2>2. \A i \in 1 .. n : F[i + 6] = p[i]
    BY <1>2, <1>3, <2>1
  <2>3. t \in Seq(Byte) /\ Len(t) = n /\ \A i \in 1 .. n : t[i] = F[i + 6]
    BY <1>1, <1>2
  <2>4. \A i \in 1 .. n : t[i] = p[i]
    BY <2>2, <2>3
  <2>. HIDE DEF t
  <2>5. t = p
    BY <1>1, <2>3, <2>4, SeqEqual
  <2>. QED
    BY <2>5 DEF t
<1>9. ChecksumHolds(F)
  <2>1. 7 + n = n + 7 /\ 8 + n = n + 8
    BY <1>1
  <2>. QED
    BY <1>2, <1>6, <1>7, <2>1 DEF ChecksumHolds
<1>10. ubxDecodes(F)
  BY <1>1, <1>2, <1>6, <1>9 DEF ubxDecodes, UBX_FRAME_OVERHEAD
<1>11. ubxDecode(F) = pkt
  BY <1>4, <1>5, <1>6, <1>8 DEF ubxDecode
<1>. QED
  BY <1>10, <1>11 DEF F

(* Decoding accepts frames only: the bytes it takes are the frame of the    *)
(* packet it returns, sync bytes, length and checksum included.             *)
THEOREM DecodeAcceptsOnlyFrames ==
  ASSUME NEW f \in Seq(Byte), ubxDecodes(f)
  PROVE  LET n == PayloadLen(f)
         IN  /\ n \in 0 .. UBX_MAX_PAYLOAD /\ n + 8 <= Len(f)
             /\ ubxDecode(f) \in UbxBytes
             /\ Framed(ubxDecode(f)) = SubSeq(f, 1, n + 8)
<1>. DEFINE n == PayloadLen(f)
            pkt == ubxDecode(f)
            p == SubSeq(f, 7, 6 + n)
            body == SubSeq(f, 3, 6 + n)
            F == Framed(pkt)
            b == Body(pkt)
            t == SubSeq(f, 1, n + 8)
<1>1. /\ Len(f) \in Nat /\ 8 <= Len(f) /\ 8 + n <= Len(f) /\ n <= UBX_MAX_PAYLOAD
      /\ f[1] = UBX_SYNC_1 /\ f[2] = UBX_SYNC_2
      /\ <<f[7 + n], f[8 + n]>> = ubxChecksum(body)
  BY DEF ubxDecodes, ChecksumHolds, UBX_FRAME_OVERHEAD
<1>2. \A i \in 1 .. Len(f) : f[i] \in Byte
  OBVIOUS
<1>3. f[3] \in Byte /\ f[4] \in Byte /\ f[5] \in 0 .. 255 /\ f[6] \in 0 .. 255
  <2>1. 3 \in 1 .. Len(f) /\ 4 \in 1 .. Len(f) /\ 5 \in 1 .. Len(f) /\ 6 \in 1 .. Len(f)
    BY <1>1
  <2>. QED
    BY <1>2, <2>1 DEF Byte
<1>4. n \in Nat /\ n % 256 = f[5] /\ n \div 256 = f[6]
  <2>1. n = f[5] + 256 * f[6]
    BY DEF PayloadLen, U16
  <2>2. PICK lo \in 0 .. 255, hi \in 0 .. 255 : lo = f[5] /\ hi = f[6]
    BY <1>3
  <2>3. n = lo + 256 * hi
    BY <2>1, <2>2, Zenon
  <2>4. lo + 256 * hi \in Nat /\ (lo + 256 * hi) % 256 = lo /\ (lo + 256 * hi) \div 256 = hi
    BY SMT
  <2>. HIDE DEF n
  <2>. QED
    BY <2>2, <2>3, <2>4
<1>5. n < 256 * 256 /\ UBX_MAX_PAYLOAD \in Nat
  <2>. HIDE DEF n
  <2>. QED
    BY <1>1, <1>4, UbxCodecAssumption
<1>6. pkt = [cls |-> f[3], id |-> f[4], payload |-> p]
  BY DEF ubxDecode
<1>. HIDE DEF n
<1>7. p \in Seq(Byte) /\ Len(p) = n /\ \A i \in 1 .. n : p[i] = f[i + 6]
  <2>1. \A i \in 7 .. 6 + n : f[i] \in Byte
    BY <1>1, <1>2, <1>4
  <2>. QED
    BY <1>1, <1>4, <2>1
<1>8. body \in Seq(Byte) /\ Len(body) = n + 4 /\ \A i \in 1 .. n + 4 : body[i] = f[i + 2]
  <2>1. \A i \in 3 .. 6 + n : f[i] \in Byte
    BY <1>1, <1>2, <1>4
  <2>. QED
    BY <1>1, <1>4, <2>1
<1>9. t \in Seq(Byte) /\ Len(t) = n + 8 /\ \A i \in 1 .. n + 8 : t[i] = f[i]
  <2>1. \A i \in 1 .. n + 8 : f[i] \in Byte
    BY <1>1, <1>2, <1>4
  <2>. QED
    BY <1>1, <1>4, <2>1
<1>. HIDE DEF p, body, t, pkt
<1>10. pkt \in UbxBytes
  BY <1>3, <1>6, <1>7 DEF UbxBytes
<1>11. pkt.cls = f[3] /\ pkt.id = f[4] /\ pkt.payload = p /\ Len(pkt.payload) = n
  BY <1>6, <1>7
<1>12. /\ b \in Seq(Byte) /\ Len(b) = n + 4 /\ b[1] = f[3] /\ b[2] = f[4] /\ b[3] = f[5] /\ b[4] = f[6]
       /\ \A i \in 1 .. n : b[i + 4] = p[i]
  <2>1. Len(pkt.payload) < 256 * 256
    BY <1>5, <1>11
  <2>. QED
    BY <1>4, <1>10, <1>11, <2>1, BodyBytes, ZenonT(60)
<1>13. /\ F \in Seq(Byte) /\ Len(F) = n + 8 /\ F[1] = UBX_SYNC_1 /\ F[2] = UBX_SYNC_2
       /\ \A i \in 1 .. n + 4 : F[i + 2] = b[i]
       /\ <<F[n + 7], F[n + 8]>> = ubxChecksum(b)
  BY <1>5, <1>10, <1>11, FrameBytes DEF IsFrame
<1>. HIDE DEF F, b
<1>14. \A i \in 1 .. n + 4 : b[i] = f[i + 2]
  <2>. SUFFICES ASSUME NEW i \in 1 .. n + 4 PROVE b[i] = f[i + 2]
    OBVIOUS
  <2>1. CASE i <= 4
    <3>1. i = 1 \/ i = 2 \/ i = 3 \/ i = 4
      BY <1>4, <2>1
    <3>. QED
      BY <1>12, <3>1
  <2>2. CASE ~(i <= 4)
    <3>1. PICK j \in 1 .. n : i = j + 4
      <4>1. i - 4 \in 1 .. n /\ i = (i - 4) + 4
        BY <1>4, <2>2
      <4>. QED
        BY <4>1
    <3>2. b[j + 4] = p[j] /\ p[j] = f[j + 6] /\ i + 2 = j + 6
      BY <1>7, <1>12, <3>1, <1>4
    <3>. QED
      BY <3>1, <3>2
  <2>. QED
    BY <2>1, <2>2
<1>15. b = body
  BY <1>8, <1>12, <1>14, SeqEqual
<1>16. F[n + 7] = f[n + 7] /\ F[n + 8] = f[n + 8]
  <2>1. 7 + n = n + 7 /\ 8 + n = n + 8
    BY <1>4
  <2>2. <<F[n + 7], F[n + 8]>> = <<f[n + 7], f[n + 8]>>
    BY <1>1, <1>13, <1>15, <2>1
  <2>. QED
    BY <2>2
<1>17. \A i \in 1 .. n + 8 : F[i] = t[i]
  <2>. SUFFICES ASSUME NEW i \in 1 .. n + 8 PROVE F[i] = f[i]
    BY <1>9
  <2>1. CASE i = 1 \/ i = 2
    BY <1>1, <1>13, <2>1
  <2>2. CASE i = n + 7 \/ i = n + 8
    BY <1>16, <2>2
  <2>3. CASE i > 2 /\ i < n + 7
    <3>1. PICK j \in 1 .. n + 4 : i = j + 2
      <4>1. i - 2 \in 1 .. n + 4 /\ i = (i - 2) + 2
        BY <1>4, <2>3
      <4>. QED
        BY <4>1
    <3>. QED
      BY <1>13, <1>14, <3>1
  <2>. QED
    BY <1>4, <2>1, <2>2, <2>3
<1>18. F = t
  BY <1>9, <1>13, <1>17, SeqEqual
<1>. QED
  BY <1>1, <1>4, <1>5, <1>10, <1>18 DEF n, F, t, pkt

------------------------------------------------------------------------------
(* Live records.                                                            *)

\* The fields of a record but the battery's.
Fields ==
  {"iTOW", "year", "month", "day", "hour", "minute", "second", "validityFlags", "fixStatus",
   "numSVs", "longitude", "latitude", "wgsAltitude", "altitude", "speed", "heading",
   "speedAccuracy", "gForceX", "gForceY", "gForceZ", "rotRateX", "rotRateY", "rotRateZ"}

(* The layout has every field within the 80 bytes of a live record, one, two*)
(* or four bytes wide and clear of the battery's byte.                      *)
LEMMA LayoutFields ==
  /\ DOMAIN Layout = Fields
  /\ \A f \in Fields : /\ Layout[f][1] \in 0 .. 78 /\ Layout[f][2] \in {1, 2, 4}
                       /\ Layout[f][1] + Layout[f][2] <= 80
                       /\ 67 < Layout[f][1] \/ Layout[f][1] + Layout[f][2] <= 67
BY DEF Layout, Fields

(* No byte of a live record belongs to two fields.                          *)
LEMMA LayoutDisjoint ==
  ASSUME NEW f \in Fields, NEW g \in Fields, NEW off \in 0 .. 79, Covers(f, off), Covers(g, off)
  PROVE  f = g
BY DEF Fields, Layout, Covers

(* A byte of a number is a byte, also of a negative one.                    *)
LEMMA ByteOfType ==
  ASSUME NEW v \in Int, NEW k \in 0 .. 3
  PROVE  ByteOf(v, k) \in Byte
<1>1. \A m \in {1, 256, 65536, 16777216} : (v \div m) % 256 \in 0 .. 255
  BY SMT
<1>2. <<1, 256, 65536, 16777216>>[k + 1] \in {1, 256, 65536, 16777216}
  BY SMT
<1>. QED
  BY <1>1, <1>2, SMT DEF ByteOf, Byte

(* readU16() puts together the two bytes of an unsigned number.             *)
LEMMA Unsigned16 ==
  ASSUME NEW v \in UInt16
  PROVE  U16(ByteOf(v, 0), ByteOf(v, 1)) = v
BY SMT DEF UInt16, U16, ByteOf

(* readI16() puts together those of a signed one: the cast carries the sign.*)
LEMMA Integers16 ==
  ASSUME NEW v \in Int16
  PROVE  Signed16(U16(ByteOf(v, 0), ByteOf(v, 1))) = v
BY SMT DEF Int16, Signed16, U16, ByteOf

(* readU32() puts together the four bytes of an unsigned number.            *)
LEMMA Unsigned32 ==
  ASSUME NEW v \in UInt32
  PROVE  U16(ByteOf(v, 0), ByteOf(v, 1)) + 65536 * U16(ByteOf(v, 2), ByteOf(v, 3)) = v
BY SMT DEF UInt32, U16, ByteOf

(* readI32() puts together those of a signed one.                           *)
LEMMA Integers32 ==
  ASSUME NEW v \in Int32
  PROVE  U16(ByteOf(v, 0), ByteOf(v, 1)) + 65536 * Signed16(U16(ByteOf(v, 2), ByteOf(v, 3))) = v
BY SMT DEF Int32, Signed16, U16, ByteOf

(* The ranges of the fields are ranges of integers.                         *)
LEMMA WidthsAreIntegers ==
  Byte \subseteq Int /\ UInt16 \subseteq Int /\ UInt32 \subseteq Int /\ Int16 \subseteq Int /\ Int32 \subseteq Int
BY SMT DEF Byte, UInt16, UInt32, Int16, Int32

(* What can be measured: integers, a battery level of seven bits, and a     *)
(* flag.                                                                    *)
LEMMA MeasuredFields ==
  ASSUME NEW r \in Measurable
  PROVE  /\ \A f \in Fields : r[f] \in Int
         /\ r.batteryLevel \in 0 .. 127 /\ r.charging \in BOOLEAN
<1>1. r.batteryLevel \in 0 .. 127
  BY DEF Measurable
<1>2. r.charging \in BOOLEAN
  BY DEF Measurable
<1>3. \A f \in Fields : r[f] \in Int
  BY WidthsAreIntegers DEF Measurable, Fields
<1>. QED
  BY <1>1, <1>2, <1>3

(* Every byte of a live record's payload is a byte.                         *)
LEMMA PayloadByteType ==
  ASSUME NEW r \in Measurable, NEW off \in 0 .. 79
  PROVE  PayloadByte(r, off) \in Byte
<1>1. CASE off = 67
  <2>1. r.batteryLevel + (IF r.charging THEN 128 ELSE 0) \in Byte
    BY MeasuredFields DEF Byte
  <2>. QED
    BY <1>1, <2>1 DEF PayloadByte
<1>2. CASE off # 67 /\ \E f \in Fields : Covers(f, off)
  <2>. DEFINE f == CHOOSE f \in Fields : Covers(f, off)
  <2>1. f \in Fields /\ Covers(f, off)
    BY <1>2
  <2>2. off - Layout[f][1] \in 0 .. 3
    <3>1. Layout[f][2] \in {1, 2, 4} /\ off - Layout[f][1] \in 0 .. Layout[f][2] - 1
      BY <2>1, LayoutFields DEF Covers
    <3>. QED
      BY <3>1
  <2>3. r[f] \in Int
    BY <2>1, MeasuredFields
  <2>. HIDE DEF f
  <2>4. ByteOf(r[f], off - Layout[f][1]) \in Byte
    BY <2>2, <2>3, ByteOfType
  <2>. QED
    BY <1>2, <2>4, LayoutFields DEF PayloadByte, f
<1>3. CASE off # 67 /\ ~\E f \in Fields : Covers(f, off)
  <2>1. PayloadByte(r, off) = 0
    BY <1>3, LayoutFields DEF PayloadByte
  <2>. QED
    BY <2>1 DEF Byte
<1>. QED
  BY <1>1, <1>2, <1>3

(* A live record is a packet of 80 bytes of payload.                        *)
LEMMA LivePacketType ==
  ASSUME NEW r \in Measurable
  PROVE  /\ LivePacket(r) \in UbxBytes /\ IsLive(LivePacket(r))
         /\ Len(LivePacket(r).payload) = RACEBOX_PAYLOAD_LEN
         /\ \A off \in 0 .. 79 : At(LivePacket(r).payload, off) = PayloadByte(r, off)
<1>. DEFINE p == [i \in 1 .. 80 |-> PayloadByte(r, i - 1)]
<1>1. \A i \in 1 .. 80 : PayloadByte(r, i - 1) \in Byte
  BY PayloadByteType
<1>2. p \in Seq(Byte) /\ Len(p) = 80
  BY <1>1
<1>3. \A off \in 0 .. 79 : p[off + 1] = PayloadByte(r, off)
  OBVIOUS
<1>. HIDE DEF p
<1>4. LivePacket(r) = [cls |-> 255, id |-> 1, payload |-> p]
  BY DEF LivePacket, p, UBX_CLASS_RACEBOX, UBX_ID_LIVE, RACEBOX_PAYLOAD_LEN
<1>5. 255 \in Byte /\ 1 \in Byte
  BY DEF Byte
<1>. QED
  BY <1>2, <1>3, <1>4, <1>5 DEF UbxBytes, IsLive, At, UBX_CLASS_RACEBOX, UBX_ID_LIVE, RACEBOX_PAYLOAD_LEN

(* A field's bytes are where the layout puts them.                          *)
LEMMA FieldByte ==
  ASSUME NEW r \in Measurable, NEW f \in Fields, NEW k \in 0 .. Layout[f][2] - 1
  PROVE  At(LivePacket(r).payload, Layout[f][1] + k) = ByteOf(r[f], k)
<1>. DEFINE off == Layout[f][1] + k
<1>1. off \in 0 .. 79 /\ off # 67 /\ off - Layout[f][1] = k
  BY LayoutFields
<1>2. Covers(f, off)
  BY <1>1 DEF Covers
<1>3. (CHOOSE g \in Fields : Covers(g, off)) = f
  BY <1>1, <1>2, LayoutDisjoint
<1>. HIDE DEF off
<1>4. PayloadByte(r, off) = ByteOf(r[f], k)
  BY <1>1, <1>2, <1>3, LayoutFields DEF PayloadByte
<1>5. At(LivePacket(r).payload, off) = PayloadByte(r, off)
  BY <1>1, LivePacketType
<1>. QED
  BY <1>4, <1>5 DEF off

(* raceBoxParse() takes the battery's level and its charging flag apart as  *)
(* the device put them together.                                            *)
LEMMA BatteryByte ==
  ASSUME NEW r \in Measurable
  PROVE  /\ At(LivePacket(r).payload, 67) % 128 = r.batteryLevel
         /\ (At(LivePacket(r).payload, 67) >= 128) = r.charging
<1>1. At(LivePacket(r).payload, 67) = r.batteryLevel + (IF r.charging THEN 128 ELSE 0)
  <2>1. 67 \in 0 .. 79
    OBVIOUS
  <2>2. At(LivePacket(r).payload, 67) = PayloadByte(r, 67)
    BY <2>1, LivePacketType
  <2>. QED
    BY <2>2 DEF PayloadByte
<1>2. r.batteryLevel \in 0 .. 127 /\ r.charging \in BOOLEAN
  BY MeasuredFields
<1>3. CASE r.charging
  <2>1. At(LivePacket(r).payload, 67) = r.batteryLevel + 128
    BY <1>1, <1>3
  <2>2. (At(LivePacket(r).payload, 67) >= 128) = TRUE
    BY <1>2, <2>1
  <2>3. r.charging = TRUE
    BY <1>2, <1>3
  <2>4. At(LivePacket(r).payload, 67) % 128 = r.batteryLevel
    BY <1>2, <2>1
  <2>. QED
    BY <2>2, <2>3, <2>4
<1>4. CASE ~r.charging
  <2>1. At(LivePacket(r).payload, 67) = r.batteryLevel
    BY <1>1, <1>2, <1>4
  <2>2. (At(LivePacket(r).payload, 67) >= 128) = FALSE
    BY <1>2, <2>1
  <2>3. r.charging = FALSE
    BY <1>2, <1>4
  <2>4. At(LivePacket(r).payload, 67) % 128 = r.batteryLevel
    BY <1>2, <2>1
  <2>. QED
    BY <2>2, <2>3, <2>4
<1>. QED
  BY <1>3, <1>4

(* Read at its offset and in its width, a field is what was measured.       *)
LEMMA FieldReads ==
  ASSUME NEW r \in Measurable, NEW f \in Fields
  PROVE  LET p == LivePacket(r).payload
             a == Layout[f][1]
             w == Layout[f][2]
         IN  /\ w = 1 /\ r[f] \in Byte => At(p, a) = r[f]
             /\ w = 2 /\ r[f] \in UInt16 => readU16(p, a) = r[f]
             /\ w = 2 /\ r[f] \in Int16 => readI16(p, a) = r[f]
             /\ w = 4 /\ r[f] \in UInt32 => readU32(p, a) = r[f]
             /\ w = 4 /\ r[f] \in Int32 => readI32(p, a) = r[f]
<1>. DEFINE p == LivePacket(r).payload
            v == r[f]
            a == Layout[f][1]
            w == Layout[f][2]
<1>1. a \in Nat /\ w \in {1, 2, 4} /\ v \in Int
  BY LayoutFields, MeasuredFields
<1>2. \A k \in 0 .. w - 1 : At(p, a + k) = ByteOf(v, k)
  BY FieldByte
<1>. HIDE DEF p, v, a, w
<1>3. ASSUME w = 1, v \in Byte PROVE At(p, a) = v
  <2>1. 0 \in 0 .. w - 1 /\ a + 0 = a
    BY <1>1, <1>3
  <2>2. ByteOf(v, 0) = v
    BY <1>3, SMT DEF ByteOf, Byte
  <2>. QED
    BY <1>2, <2>1, <2>2
<1>4. ASSUME w = 2 PROVE readU16(p, a) = U16(ByteOf(v, 0), ByteOf(v, 1))
  <2>1. 0 \in 0 .. w - 1 /\ 1 \in 0 .. w - 1 /\ a + 0 = a
    BY <1>1, <1>4
  <2>. QED
    BY <1>2, <2>1 DEF readU16
<1>5. ASSUME w = 4
      PROVE  /\ readU16(p, a) = U16(ByteOf(v, 0), ByteOf(v, 1))
             /\ readU16(p, a + 2) = U16(ByteOf(v, 2), ByteOf(v, 3))
  <2>1. /\ 0 \in 0 .. w - 1 /\ 1 \in 0 .. w - 1 /\ 2 \in 0 .. w - 1 /\ 3 \in 0 .. w - 1
        /\ a + 0 = a /\ a + 2 + 1 = a + 3
    BY <1>1, <1>5
  <2>2. At(p, a) = ByteOf(v, 0) /\ At(p, a + 1) = ByteOf(v, 1)
    BY <1>2, <2>1
  <2>3. At(p, a + 2) = ByteOf(v, 2) /\ At(p, a + 2 + 1) = ByteOf(v, 3)
    BY <1>2, <2>1
  <2>. QED
    BY <2>2, <2>3 DEF readU16
<1>6. w = 2 /\ v \in UInt16 => readU16(p, a) = v
  BY <1>4, Unsigned16
<1>7. w = 2 /\ v \in Int16 => readI16(p, a) = v
  BY <1>4, Integers16 DEF readI16
<1>8. w = 4 /\ v \in UInt32 => readU32(p, a) = v
  BY <1>5, Unsigned32 DEF readU32
<1>9. w = 4 /\ v \in Int32 => readI32(p, a) = v
  BY <1>5, Integers32 DEF readI32, readI16
<1>. QED
  BY <1>3, <1>6, <1>7, <1>8, <1>9 DEF p, v, a, w

(* raceBoxParse() accepts every live record the device may send, and returns*)
(* the measurement it was made of, field by field: no offset, width or sign *)
(* is off.                                                                  *)
THEOREM ParseInvertsLayout ==
  ASSUME NEW r \in Measurable
  PROVE  raceBoxParses(LivePacket(r)) /\ raceBoxParse(LivePacket(r)) = r
<1>. DEFINE p == LivePacket(r).payload
<1>1. raceBoxParses(LivePacket(r))
  <2>. DEFINE pkt == LivePacket(r)
  <2>1. IsLive(pkt) /\ Len(pkt.payload) = RACEBOX_PAYLOAD_LEN
    BY LivePacketType
  <2>. HIDE DEF pkt
  <2>2. raceBoxParses(pkt)
    BY <2>1 DEF raceBoxParses, IsLive, RACEBOX_PAYLOAD_LEN
  <2>. QED
    BY <2>2 DEF pkt
<1>2. \A f \in {"month", "day", "hour", "minute", "second", "validityFlags", "fixStatus", "numSVs"} :
        f \in Fields /\ Layout[f][2] = 1 /\ r[f] \in Byte
  BY DEF Measurable, Fields, Layout
<1>3. \A f \in {"iTOW", "speed", "heading", "speedAccuracy"} :
        f \in Fields /\ Layout[f][2] = 4 /\ r[f] \in UInt32
  BY DEF Measurable, Fields, Layout
<1>4. \A f \in {"longitude", "latitude", "wgsAltitude", "altitude"} :
        f \in Fields /\ Layout[f][2] = 4 /\ r[f] \in Int32
  BY DEF Measurable, Fields, Layout
<1>5. \A f \in {"gForceX", "gForceY", "gForceZ", "rotRateX", "rotRateY", "rotRateZ"} :
        f \in Fields /\ Layout[f][2] = 2 /\ r[f] \in Int16
  BY DEF Measurable, Fields, Layout
<1>6. "year" \in Fields /\ Layout["year"][2] = 2 /\ r["year"] \in UInt16
  BY DEF Measurable, Fields, Layout
<1>7. \A f \in {"month", "day", "hour", "minute", "second", "validityFlags", "fixStatus", "numSVs"} :
        At(p, Layout[f][1]) = r[f]
  BY <1>2, FieldReads
<1>8. \A f \in {"iTOW", "speed", "heading", "speedAccuracy"} : readU32(p, Layout[f][1]) = r[f]
  BY <1>3, FieldReads
<1>9. \A f \in {"longitude", "latitude", "wgsAltitude", "altitude"} : readI32(p, Layout[f][1]) = r[f]
  BY <1>4, FieldReads
<1>10. \A f \in {"gForceX", "gForceY", "gForceZ", "rotRateX", "rotRateY", "rotRateZ"} :
         readI16(p, Layout[f][1]) = r[f]
  BY <1>5, FieldReads
<1>11. readU16(p, Layout["year"][1]) = r["year"]
  BY <1>6, FieldReads
<1>. HIDE DEF p
<1>12. /\ At(p, 6) = r.month /\ At(p, 7) = r.day /\ At(p, 8) = r.hour /\ At(p, 9) = r.minute
       /\ At(p, 10) = r.second /\ At(p, 11) = r.validityFlags /\ At(p, 20) = r.fixStatus
       /\ At(p, 23) = r.numSVs
  BY <1>7 DEF Layout
<1>13. /\ readU32(p, 0) = r.iTOW /\ readU32(p, 48) = r.speed /\ readU32(p, 52) = r.heading
       /\ readU32(p, 56) = r.speedAccuracy
  BY <1>8 DEF Layout
<1>14. /\ readI32(p, 24) = r.longitude /\ readI32(p, 28) = r.latitude
       /\ readI32(p, 32) = r.wgsAltitude /\ readI32(p, 36) = r.altitude
  BY <1>9 DEF Layout
<1>15. /\ readI16(p, 68) = r.gForceX /\ readI16(p, 70) = r.gForceY /\ readI16(p, 72) = r.gForceZ
       /\ readI16(p, 74) = r.rotRateX /\ readI16(p, 76) = r.rotRateY /\ readI16(p, 78) = r.rotRateZ
  BY <1>10 DEF Layout
<1>16. readU16(p, 4) = r.year
  BY <1>11 DEF Layout
<1>17. At(p, 67) % 128 = r.batteryLevel /\ (At(p, 67) >= 128) = r.charging
  BY BatteryByte DEF p
<1>18. raceBoxParse(LivePacket(r)) = r
  BY <1>12, <1>13, <1>14, <1>15, <1>16, <1>17 DEF raceBoxParse, p, Measurable
<1>. QED
  BY <1>1, <1>18

------------------------------------------------------------------------------
(* Messages.                                                                *)

\* What the device sends, unasked or in answer.
AllMessages == Messages \cup {Ack(pkt) : pkt \in Commands}

\* A message that the ring keeps together and that is heard as it was meant.
WellFramed(msg) ==
  LET b == msg.bytes
  IN  /\ b \in Seq(Byte) /\ Len(b) = UBX_FRAME_OVERHEAD + PayloadLen(b)
      /\ PayloadLen(b) \in 0 .. UBX_MAX_PAYLOAD
      /\ b[1] = UBX_SYNC_1 /\ b[2] = UBX_SYNC_2
      /\ ubxDecodes(b) /\ Heard(ubxDecode(b)) = <<msg.meant>>

(* A packet's frame is well framed, whichever callback it is for.           *)
LEMMA FramedIsWellFramed ==
  ASSUME NEW pkt \in UbxBytes, Len(pkt.payload) <= UBX_MAX_PAYLOAD, NEW meant, Heard(pkt) = <<meant>>
  PROVE  WellFramed([bytes |-> Framed(pkt), meant |-> meant])
<1>. DEFINE n == Len(pkt.payload)
            F == Framed(pkt)
            B == Body(pkt)
<1>1. n \in Nat /\ UBX_MAX_PAYLOAD \in Nat /\ n <= UBX_MAX_PAYLOAD /\ n < 256 * 256
  BY PacketParts, UbxCodecAssumption
<1>2. /\ F \in Seq(Byte) /\ Len(F) = n + 8
      /\ F[1] = UBX_SYNC_1 /\ F[2] = UBX_SYNC_2
      /\ \A i \in 1 .. n + 4 : F[i + 2] = B[i]
  BY <1>1, FrameBytes DEF IsFrame
<1>3. B[3] = n % 256 /\ B[4] = n \div 256
  BY <1>1, BodyBytes, ZenonT(40)
<1>4. ubxDecodes(F) /\ ubxDecode(F) = pkt
  BY DecodeInvertsFraming
<1>. HIDE DEF n, F, B
<1>5. PayloadLen(F) = n
  <2>1. 3 \in 1 .. n + 4 /\ 4 \in 1 .. n + 4
    BY <1>1
  <2>2. F[3 + 2] = B[3] /\ F[4 + 2] = B[4]
    BY <1>2, <2>1
  <2>. QED
    BY <1>1, <1>3, <2>2 DEF PayloadLen, U16
<1>6. WellFramed([bytes |-> F, meant |-> meant])
  BY <1>1, <1>2, <1>4, <1>5 DEF WellFramed, UBX_FRAME_OVERHEAD
<1>. QED
  BY <1>6 DEF F

(* Every message of the device's is: its live records come back field by    *)
(* field, its other packets whole.                                          *)
THEOREM MessagesAreHeardAsMeant ==
  ASSUME NEW msg \in AllMessages
  PROVE  WellFramed(msg)
<1>. USE DeviceAssumptions
<1>1. ASSUME NEW r \in Readings PROVE WellFramed(ToLiveCb(r))
  <2>. DEFINE pkt == LivePacket(r)
              meant == [cb |-> "live", arg |-> r]
  <2>0. r \in Measurable
    OBVIOUS
  <2>1. /\ pkt \in UbxBytes /\ IsLive(pkt) /\ Len(pkt.payload) <= UBX_MAX_PAYLOAD
        /\ raceBoxParses(pkt) /\ raceBoxParse(pkt) = r
    BY <2>0, LivePacketType, ParseInvertsLayout
  <2>. HIDE DEF pkt
  <2>2. Heard(pkt) = <<meant>>
    BY <2>1 DEF Heard
  <2>. HIDE DEF meant
  <2>3. WellFramed([bytes |-> Framed(pkt), meant |-> meant])
    BY <2>1, <2>2, FramedIsWellFramed
  <2>. QED
    BY <2>3 DEF ToLiveCb, pkt, meant
<1>2. ASSUME NEW p \in UbxBytes, Len(p.payload) <= UBX_MAX_PAYLOAD, ~IsLive(p)
      PROVE  WellFramed(ToPacketCb(p))
  <2>. DEFINE meant == [cb |-> "packet", arg |-> p]
  <2>1. Heard(p) = <<meant>>
    BY <1>2 DEF Heard
  <2>. HIDE DEF meant
  <2>2. WellFramed([bytes |-> Framed(p), meant |-> meant])
    BY <1>2, <2>1, FramedIsWellFramed
  <2>. QED
    BY <2>2 DEF ToPacketCb, meant
<1>3. ASSUME NEW pkt \in Commands PROVE WellFramed(Ack(pkt))
  <2>. DEFINE p == [cls |-> UBX_CLASS_RACEBOX, id |-> UBX_ID_ACK, payload |-> <<pkt.cls, pkt.id>>]
  <2>1. pkt.cls \in Byte /\ pkt.id \in Byte
    BY StreamAssumptions, PacketParts
  <2>2. p \in UbxBytes /\ Len(p.payload) = 2 /\ ~IsLive(p)
    BY <2>1 DEF UbxBytes, Byte, IsLive, UBX_CLASS_RACEBOX, UBX_ID_ACK, UBX_ID_LIVE
  <2>. HIDE DEF p
  <2>3. Len(p.payload) <= UBX_MAX_PAYLOAD
    BY <2>2, UbxCodecAssumption DEF RACEBOX_PAYLOAD_LEN
  <2>4. WellFramed(ToPacketCb(p))
    BY <1>2, <2>2, <2>3
  <2>. QED
    BY <2>4 DEF Ack, p
<1>. QED
  BY <1>1, <1>2, <1>3 DEF AllMessages, Messages

------------------------------------------------------------------------------
(* Sequences of bytes.                                                      *)

(* What two sequences of bytes are, one after the other.                    *)
LEMMA Concat ==
  ASSUME NEW s \in Seq(Byte), NEW t \in Seq(Byte)
  PROVE  /\ s \o t \in Seq(Byte) /\ Len(s \o t) = Len(s) + Len(t)
         /\ Len(s) \in Nat /\ Len(t) \in Nat
         /\ \A i \in 1 .. Len(s) : (s \o t)[i] = s[i]
         /\ \A i \in 1 .. Len(t) : (s \o t)[Len(s) + i] = t[i]
<1>1. /\ s \o t \in Seq(Byte) /\ Len(s \o t) = Len(s) + Len(t)
      /\ \A i \in 1 .. Len(s) + Len(t) : (s \o t)[i] = IF i <= Len(s) THEN s[i] ELSE t[i - Len(s)]
  BY ConcatProperties, Zenon
<1>. DEFINE u == s \o t
            m == Len(s)
            n == Len(t)
<1>2. m \in Nat /\ n \in Nat
  OBVIOUS
<1>. HIDE DEF u, m, n
<1>3. \A i \in 1 .. m + n : u[i] = IF i <= m THEN s[i] ELSE t[i - m]
  BY <1>1 DEF u, m, n
<1>4. \A i \in 1 .. m : u[i] = s[i]
  BY <1>2, <1>3
<1>5. ASSUME NEW i \in 1 .. n PROVE u[m + i] = t[i]
  <2>1. PICK j \in 1 .. m + n : j = m + i
    BY <1>2
  <2>2. ~(j <= m) /\ j - m = i
    BY <1>2, <2>1
  <2>. QED
    BY <1>3, <2>1, <2>2
<1>. QED
  BY <1>1, <1>2, <1>4, <1>5 DEF u, m, n

(* Concatenation of bytes is associative.                                   *)
LEMMA Associative ==
  ASSUME NEW s \in Seq(Byte), NEW t \in Seq(Byte), NEW u \in Seq(Byte)
  PROVE  (s \o t) \o u = s \o (t \o u)
BY ConcatAssociative

\* \o as an operator whose definition is kept from the provers: where sequences are only regrouped they
\* need its laws and not its elements.
Cat(s, t) == s \o t

(* It is associative and has the empty sequence as its unit.                *)
LEMMA CatLaws ==
  /\ \A s, t \in Seq(Byte) : Cat(s, t) \in Seq(Byte) /\ Len(Cat(s, t)) = Len(s) + Len(t)
  /\ \A s, t, u \in Seq(Byte) : Cat(Cat(s, t), u) = Cat(s, Cat(t, u))
  /\ \A s \in Seq(Byte) : Cat(s, <<>>) = s /\ Cat(<<>>, s) = s
  /\ <<>> \in Seq(Byte)
<1>1. \A s, t \in Seq(Byte) : Cat(s, t) \in Seq(Byte) /\ Len(Cat(s, t)) = Len(s) + Len(t)
  BY Concat DEF Cat
<1>2. \A s, t, u \in Seq(Byte) : Cat(Cat(s, t), u) = Cat(s, Cat(t, u))
  BY Associative DEF Cat
<1>3. \A s \in Seq(Byte) : Cat(s, <<>>) = s /\ Cat(<<>>, s) = s
  BY ConcatEmptySeq DEF Cat
<1>. QED
  BY <1>1, <1>2, <1>3

(* The law most steps below need, of three sequences at hand.              *)
LEMMA CatAssoc ==
  ASSUME NEW s \in Seq(Byte), NEW t \in Seq(Byte), NEW u \in Seq(Byte)
  PROVE  Cat(Cat(s, t), u) = Cat(s, Cat(t, u))
  BY CatLaws

(* A sequence is its first byte and the rest.                               *)
LEMMA FirstAndRest ==
  ASSUME NEW s \in Seq(Byte), NEW t \in Seq(Byte), Len(s) = 1 + Len(t), \A i \in 1 .. Len(t) : t[i] = s[1 + i]
  PROVE  <<s[1]>> \in Seq(Byte) /\ s = Cat(<<s[1]>>, t)
<1>. DEFINE r == <<s[1]>>
            n == Len(t)
            u == r \o t
<1>1. r \in Seq(Byte) /\ Len(r) = 1 /\ r[1] = s[1] /\ n \in Nat
  OBVIOUS
<1>. HIDE DEF r
<1>2. u \in Seq(Byte) /\ Len(u) = 1 + n /\ u[1] = s[1] /\ \A i \in 1 .. n : u[1 + i] = t[i]
  <2>1. /\ u \in Seq(Byte) /\ Len(u) = Len(r) + Len(t)
        /\ \A i \in 1 .. Len(r) : u[i] = r[i]
        /\ \A i \in 1 .. Len(t) : u[Len(r) + i] = t[i]
    BY <1>1, Concat, Zenon
  <2>. HIDE DEF u
  <2>. QED
    BY <1>1, <2>1
<1>. HIDE DEF u, n
<1>3. ASSUME NEW i \in 1 .. 1 + n PROVE u[i] = s[i]
  <2>1. CASE i = 1
    BY <1>2, <2>1
  <2>2. CASE i # 1
    <3>1. PICK k \in 1 .. n : i = 1 + k
      <4>1. i - 1 \in 1 .. n /\ i = 1 + (i - 1)
        BY <1>1, <2>2
      <4>. QED
        BY <4>1
    <3>2. u[i] = t[k] /\ t[k] = s[i]
      BY <1>2, <3>1 DEF n
    <3>. QED
      BY <3>2
  <2>. QED
    BY <2>1, <2>2
<1>4. u = s
  BY <1>2, <1>3, SeqEqual DEF n
<1>. QED
  BY <1>1, <1>4 DEF Cat, u, r

------------------------------------------------------------------------------
(* The stream of bytes that messages make.                                  *)

(* A message's bytes are a sequence.                                        *)
LEMMA MessageBytes ==
  ASSUME NEW msg \in AllMessages
  PROVE  msg.bytes \in Seq(Byte) /\ Len(msg.bytes) \in Nat
<1>1. msg.bytes \in Seq(Byte)
  BY MessagesAreHeardAsMeant DEF WellFramed
<1>. QED
  BY <1>1

(* The bytes of the first messages are those before, and the next message's.*)
LEMMA BytesRun ==
  ASSUME NEW msgs \in Seq(AllMessages)
  PROVE  LET upTo == BytesOfFirst(msgs)
         IN  /\ upTo \in [0 .. Len(msgs) -> Seq(Byte)]
             /\ upTo[0] = <<>> /\ \A i \in 1 .. Len(msgs) : upTo[i] = upTo[i - 1] \o msgs[i].bytes
<1>. DEFINE N == Len(msgs)
            V == Seq(Byte)
            Is(f) == f = [i \in 0 .. Len(msgs) |-> IF i = 0 THEN <<>> ELSE f[i - 1] \o msgs[i].bytes]
            upTo == CHOOSE f : Is(f)
<1>1. N \in Nat /\ <<>> \in V /\ \A i \in 1 .. N : msgs[i].bytes \in V
  BY MessageBytes
<1>2. \A s \in V, t \in V : s \o t \in V
  OBVIOUS
<1>3. \E f : Is(f)
  <2>. DEFINE step == [p \in V \X (1 .. N) |-> p[1] \o msgs[p[2]].bytes]
  <2>. HIDE DEF V
  <2>1. IsStep(step, N, V)
    BY <1>1, <1>2 DEF IsStep
  <2>2. PICK f : Recursive(f, N, V, <<>>, step)
    <3>. HIDE DEF step, N
    <3>. QED
      BY <1>1, <2>1, Recursion
  <2>3. f \in [0 .. N -> V] /\ f[0] = <<>> /\ \A i \in 1 .. N : f[i] = step[<<f[i - 1], i>>]
    <3>. HIDE DEF step
    <3>. QED
      BY <2>2 DEF Recursive
  <2>4. ASSUME NEW i \in 1 .. N PROVE f[i] = f[i - 1] \o msgs[i].bytes
    <3>1. f[i - 1] \in V
      BY <1>1, <2>3
    <3>2. step[<<f[i - 1], i>>] = f[i - 1] \o msgs[i].bytes
      BY <3>1
    <3>. QED
      BY <2>3, <3>2
  <2>5. \A i \in 0 .. N : f[i] = IF i = 0 THEN <<>> ELSE f[i - 1] \o msgs[i].bytes
    <3>. SUFFICES ASSUME NEW i \in 0 .. N PROVE f[i] = IF i = 0 THEN <<>> ELSE f[i - 1] \o msgs[i].bytes
      OBVIOUS
    <3>1. CASE i = 0
      BY <2>3, <3>1
    <3>2. CASE i # 0
      <4>1. i \in 1 .. N
        BY <1>1, <3>2
      <4>. QED
        BY <2>4, <3>2, <4>1, Zenon
    <3>. QED
      BY <3>1, <3>2
  <2>6. f = [i \in 0 .. N |-> f[i]]
    BY <2>3
  <2>7. Is(f)
    BY <2>5, <2>6
  <2>. QED
    BY <2>7
<1>4. Is(upTo)
  BY <1>3, Zenon
<1>5. BytesOfFirst(msgs) = upTo
  BY DEF BytesOfFirst
<1>. HIDE DEF upTo
<1>6. /\ upTo[0] = <<>> /\ \A i \in 1 .. N : upTo[i] = upTo[i - 1] \o msgs[i].bytes
      /\ upTo = [i \in 0 .. N |-> upTo[i]]
  BY <1>1, <1>4
<1>7. \A i \in 0 .. N : upTo[i] \in V
  <2>1. upTo[0] \in V /\ \A i \in 1 .. N : upTo[i - 1] \in V => upTo[i] \in V
    BY <1>1, <1>2, <1>6
  <2>. HIDE DEF N, V
  <2>. QED
    BY <1>1, <2>1, RecursionType
<1>8. upTo \in [0 .. N -> V]
  BY <1>6, <1>7
<1>. QED
  BY <1>5, <1>6, <1>8

(* Each is the beginning of the later ones.                                 *)
LEMMA BytesNest ==
  ASSUME NEW msgs \in Seq(AllMessages), NEW j \in 0 .. Len(msgs), NEW i \in 0 .. j
  PROVE  LET upTo == BytesOfFirst(msgs)
         IN  Len(upTo[i]) <= Len(upTo[j]) /\ \A k \in 1 .. Len(upTo[i]) : upTo[j][k] = upTo[i][k]
<1>. DEFINE upTo == BytesOfFirst(msgs)
            N == Len(msgs)
            Begins(m) == Len(upTo[i]) <= Len(upTo[m]) /\ \A k \in 1 .. Len(upTo[i]) : upTo[m][k] = upTo[i][k]
            S == {m \in Nat : i + m <= N => Begins(i + m)}
<1>1. /\ N \in Nat /\ upTo \in [0 .. N -> Seq(Byte)]
      /\ \A m \in 1 .. N : upTo[m] = upTo[m - 1] \o msgs[m].bytes
  <2>1. N \in Nat
    OBVIOUS
  <2>2. upTo \in [0 .. N -> Seq(Byte)] /\ \A m \in 1 .. N : upTo[m] = upTo[m - 1] \o msgs[m].bytes
    BY BytesRun, Zenon
  <2>. QED
    BY <2>1, <2>2, Zenon
<1>. HIDE DEF upTo
<1>2. \A m \in 0 .. N : Len(upTo[m]) \in Nat
  BY <1>1
<1>3. i \in Nat /\ i \in 0 .. N /\ j \in Nat
  BY <1>1
<1>4. 0 \in S
  BY <1>2, <1>3
<1>5. ASSUME NEW m \in Nat, m \in S PROVE m + 1 \in S
  <2>. SUFFICES ASSUME i + (m + 1) <= N PROVE Begins(i + (m + 1))
    OBVIOUS
  <2>1. PICK a \in 0 .. N, b \in 1 .. N : a = i + m /\ b = i + (m + 1) /\ b - 1 = a
    <3>1. i + m \in 0 .. N /\ i + (m + 1) \in 1 .. N /\ i + (m + 1) - 1 = i + m
      BY <1>1, <1>3
    <3>. QED
      BY <3>1
  <2>2. Begins(a)
    BY <1>1, <1>3, <1>5, <2>1
  <2>3. msgs[b].bytes \in Seq(Byte) /\ upTo[a] \in Seq(Byte) /\ upTo[b] = upTo[a] \o msgs[b].bytes
    <3>1. msgs[b].bytes \in Seq(Byte) /\ upTo[a] \in Seq(Byte)
      BY <1>1, <2>1, MessageBytes
    <3>2. upTo[b] = upTo[b - 1] \o msgs[b].bytes
      BY <1>1, Zenon
    <3>. QED
      BY <2>1, <3>1, <3>2, Zenon
  <2>4. /\ Len(upTo[b]) = Len(upTo[a]) + Len(msgs[b].bytes) /\ Len(msgs[b].bytes) \in Nat
        /\ \A k \in 1 .. Len(upTo[a]) : upTo[b][k] = upTo[a][k]
    <3>1. PICK u \in Seq(Byte), v \in Seq(Byte) : u = upTo[a] /\ v = msgs[b].bytes
      BY <2>3
    <3>2. upTo[b] = u \o v
      BY <2>3, <3>1, Zenon
    <3>3. Len(u \o v) = Len(u) + Len(v) /\ Len(v) \in Nat /\ \A k \in 1 .. Len(u) : (u \o v)[k] = u[k]
      BY Concat
    <3>. QED
      BY <3>1, <3>2, <3>3, Zenon
  <2>5. Len(upTo[i]) <= Len(upTo[b])
    <3>1. Len(upTo[i]) \in Nat /\ Len(upTo[a]) \in Nat /\ Len(upTo[i]) <= Len(upTo[a])
      BY <1>2, <1>3, <2>1, <2>2
    <3>. DEFINE x == Len(upTo[i])
                y == Len(upTo[a])
                z == Len(upTo[b])
                l == Len(msgs[b].bytes)
    <3>2. x \in Nat /\ y \in Nat /\ l \in Nat /\ x <= y /\ z = y + l
      BY <2>4, <3>1, Zenon
    <3>. HIDE DEF x, y, z, l
    <3>3. x <= z
      BY <3>2
    <3>. QED
      BY <3>3 DEF x, z
  <2>6. \A k \in 1 .. Len(upTo[i]) : k \in 1 .. Len(upTo[a])
    BY <1>2, <1>3, <2>2
  <2>7. \A k \in 1 .. Len(upTo[i]) : upTo[b][k] = upTo[i][k]
    BY <2>2, <2>4, <2>6
  <2>. QED
    BY <2>1, <2>5, <2>7
<1>6. Nat \subseteq S
  <2>. HIDE DEF S
  <2>. QED
    BY <1>4, <1>5, Induction
<1>7. j - i \in Nat /\ i + (j - i) = j /\ j <= N
  BY <1>1, <1>3
<1>8. Begins(j)
  <2>1. j - i \in S
    BY <1>6, <1>7
  <2>. QED
    BY <1>7, <2>1
<1>. QED
  BY <1>8 DEF upTo

(* So every message's bytes lie where the ones before it end.               *)
LEMMA MessageInStream ==
  ASSUME NEW msgs \in Seq(AllMessages), NEW i \in 1 .. Len(msgs)
  PROVE  LET upTo == BytesOfFirst(msgs)
             all  == upTo[Len(msgs)]
             b    == msgs[i].bytes
         IN  /\ Len(upTo[i - 1]) \in Nat /\ Len(b) \in Nat /\ Len(all) \in Nat
             /\ Len(upTo[i]) = Len(upTo[i - 1]) + Len(b) /\ Len(upTo[i]) <= Len(all)
             /\ \A k \in 1 .. Len(b) : all[Len(upTo[i - 1]) + k] = b[k]
<1>. DEFINE upTo == BytesOfFirst(msgs)
            N == Len(msgs)
            b == msgs[i].bytes
            before == upTo[i - 1]
            all == upTo[N]
<1>1. /\ N \in Nat /\ upTo \in [0 .. N -> Seq(Byte)] /\ upTo[i] = upTo[i - 1] \o msgs[i].bytes
  <2>1. N \in Nat
    OBVIOUS
  <2>2. upTo \in [0 .. N -> Seq(Byte)] /\ \A m \in 1 .. N : upTo[m] = upTo[m - 1] \o msgs[m].bytes
    BY BytesRun, Zenon
  <2>. QED
    BY <2>1, <2>2, Zenon
<1>2. i - 1 \in 0 .. N /\ i \in 0 .. N /\ N \in 0 .. N /\ i \in 0 .. N
  BY <1>1
<1>3. Len(upTo[i]) <= Len(upTo[N]) /\ \A k \in 1 .. Len(upTo[i]) : upTo[N][k] = upTo[i][k]
  BY <1>2, BytesNest
<1>. HIDE DEF upTo
<1>4. before \in Seq(Byte) /\ b \in Seq(Byte) /\ all \in Seq(Byte) /\ upTo[i] = before \o b
  <2>1. before \in Seq(Byte) /\ all \in Seq(Byte)
    BY <1>1, <1>2
  <2>2. b \in Seq(Byte)
    BY MessageBytes
  <2>. QED
    BY <1>1, <2>1, <2>2, Zenon
<1>5. /\ Len(upTo[i]) = Len(before) + Len(b) /\ Len(before) \in Nat /\ Len(b) \in Nat
      /\ \A k \in 1 .. Len(b) : upTo[i][Len(before) + k] = b[k]
  <2>1. PICK u \in Seq(Byte), v \in Seq(Byte) : u = before /\ v = b
    BY <1>4
  <2>2. upTo[i] = u \o v
    BY <1>4, <2>1, Zenon
  <2>3. /\ Len(u \o v) = Len(u) + Len(v) /\ Len(u) \in Nat /\ Len(v) \in Nat
        /\ \A k \in 1 .. Len(v) : (u \o v)[Len(u) + k] = v[k]
    BY Concat
  <2>. HIDE DEF before, b
  <2>. QED
    BY <2>1, <2>2, <2>3, Zenon
<1>6. Len(all) \in Nat
  BY <1>4
<1>. HIDE DEF before, b, all
<1>7. \A k \in 1 .. Len(b) : Len(before) + k \in 1 .. Len(upTo[i])
  BY <1>5
<1>8. \A k \in 1 .. Len(b) : all[Len(before) + k] = b[k]
  BY <1>3, <1>5, <1>7 DEF all
<1>. QED
  BY <1>3, <1>5, <1>6, <1>8 DEF upTo, before, b, all

(* A further message follows, and changes nothing before it.                *)
LEMMA BytesGrow ==
  ASSUME NEW msgs \in Seq(AllMessages), NEW msg \in AllMessages
  PROVE  LET n == Len(msgs)
             upTo == BytesOfFirst(msgs)
             more == BytesOfFirst(Append(msgs, msg))
         IN  /\ \A i \in 0 .. n : more[i] = upTo[i]
             /\ more[n + 1] = upTo[n] \o msg.bytes
<1>. DEFINE n == Len(msgs)
            longer == Append(msgs, msg)
            upTo == BytesOfFirst(msgs)
            more == BytesOfFirst(longer)
            S == {m \in Nat : m <= n => more[m] = upTo[m]}
<1>1. /\ n \in Nat /\ longer \in Seq(AllMessages) /\ Len(longer) = n + 1 /\ longer[n + 1] = msg
      /\ \A i \in 1 .. n : longer[i] = msgs[i]
  BY AppendProperties
<1>2. upTo[0] = <<>> /\ \A i \in 1 .. n : upTo[i] = upTo[i - 1] \o msgs[i].bytes
  BY BytesRun
<1>. HIDE DEF longer
<1>3. more[0] = <<>> /\ \A i \in 1 .. n + 1 : more[i] = more[i - 1] \o longer[i].bytes
  BY <1>1, BytesRun
<1>. HIDE DEF upTo, more, n
<1>4. 0 \in S
  BY <1>2, <1>3
<1>5. ASSUME NEW m \in Nat, m \in S PROVE m + 1 \in S
  <2>. SUFFICES ASSUME m + 1 <= n PROVE more[m + 1] = upTo[m + 1]
    OBVIOUS
  <2>1. m + 1 \in 1 .. n /\ m + 1 \in 1 .. n + 1 /\ m + 1 - 1 = m /\ m <= n
    BY <1>1
  <2>2. more[m + 1] = more[m] \o longer[m + 1].bytes /\ upTo[m + 1] = upTo[m] \o msgs[m + 1].bytes
    <3>1. PICK k : k = m + 1
      OBVIOUS
    <3>2. k \in 1 .. n /\ k \in 1 .. n + 1 /\ k - 1 = m
      BY <2>1, <3>1
    <3>3. more[k] = more[k - 1] \o longer[k].bytes
      BY <1>3, <3>2, Zenon
    <3>4. upTo[k] = upTo[k - 1] \o msgs[k].bytes
      BY <1>2, <3>2, Zenon
    <3>. QED
      BY <3>1, <3>2, <3>3, <3>4, Zenon
  <2>. QED
    BY <1>1, <1>5, <2>1, <2>2
<1>6. Nat \subseteq S
  <2>. HIDE DEF S
  <2>. QED
    BY <1>4, <1>5, Induction
<1>7. \A i \in 0 .. n : more[i] = upTo[i]
  BY <1>1, <1>6
<1>8. more[n + 1] = upTo[n] \o msg.bytes
  <2>1. n + 1 \in 1 .. n + 1 /\ n + 1 - 1 = n /\ n \in 0 .. n
    BY <1>1
  <2>2. more[n + 1] = more[n] \o longer[n + 1].bytes
    <3>1. PICK k : k = n + 1
      OBVIOUS
    <3>2. k \in 1 .. n + 1 /\ k - 1 = n
      BY <2>1, <3>1
    <3>3. more[k] = more[k - 1] \o longer[k].bytes
      BY <1>3, <3>1, <3>2, Zenon
    <3>. QED
      BY <3>1, <3>2, <3>3, Zenon
  <2>. QED
    BY <1>1, <1>7, <2>1, <2>2
<1>. QED
  BY <1>7, <1>8 DEF n, upTo, more, longer

\* All their bytes.
Stream(msgs) == BytesOfFirst(msgs)[Len(msgs)]

(* They are a sequence of bytes.                                            *)
LEMMA StreamType ==
  ASSUME NEW msgs \in Seq(AllMessages)
  PROVE  Stream(msgs) \in Seq(Byte) /\ Len(Stream(msgs)) \in Nat
<1>1. BytesOfFirst(msgs) \in [0 .. Len(msgs) -> Seq(Byte)]
  BY BytesRun, Zenon
<1>2. Len(msgs) \in 0 .. Len(msgs)
  OBVIOUS
<1>3. Stream(msgs) \in Seq(Byte)
  BY <1>1, <1>2 DEF Stream
<1>. QED
  BY <1>3

(* A further message's bytes are put behind it.                             *)
LEMMA StreamGrows ==
  ASSUME NEW msgs \in Seq(AllMessages), NEW msg \in AllMessages
  PROVE  Stream(Append(msgs, msg)) = Stream(msgs) \o msg.bytes
<1>1. Len(Append(msgs, msg)) = Len(msgs) + 1
  OBVIOUS
<1>2. BytesOfFirst(Append(msgs, msg))[Len(msgs) + 1] = BytesOfFirst(msgs)[Len(msgs)] \o msg.bytes
  BY BytesGrow, Zenon
<1>. QED
  BY <1>1, <1>2, Zenon DEF Stream

(* What a piece of a sequence is.                                           *)
LEMMA Piece ==
  ASSUME NEW s \in Seq(Byte), NEW a \in Nat, NEW n \in Nat, a + n <= Len(s), NEW t \in Seq(Byte), Len(t) = n,
         \A k \in 1 .. n : s[a + k] = t[k]
  PROVE  SubSeq(s, a + 1, a + n) = t
<1>. DEFINE u == SubSeq(s, a + 1, a + n)
<1>1. \A i \in a + 1 .. a + n : s[i] \in Byte
  <2>1. Len(s) \in Nat /\ \A i \in 1 .. Len(s) : s[i] \in Byte
    OBVIOUS
  <2>. QED
    BY <2>1
<1>2. u \in Seq(Byte) /\ Len(u) = n /\ \A k \in 1 .. n : u[k] = s[a + k]
  BY <1>1
<1>. HIDE DEF u
<1>3. u = t
  BY <1>2, SeqEqual
<1>. QED
  BY <1>3 DEF u

(* A frame that is taken out of the stream and decodes is false, or one of  *)
(* the messages.                                                            *)
LEMMA FrameFound ==
  ASSUME NEW msgs \in Seq(AllMessages), NEW past \in Seq(Byte), NEW f \in Seq(Byte), NEW rest \in Seq(Byte),
         Stream(msgs) = past \o (f \o rest), ubxDecodes(f), Len(f) = 8 + PayloadLen(f), ~FalseFrame(msgs)
  PROVE  \E j \in 1 .. Len(msgs) : Len(BytesOfFirst(msgs)[j - 1]) = Len(past) /\ f = msgs[j].bytes
<1>. DEFINE upTo == BytesOfFirst(msgs)
            all == upTo[Len(msgs)]
            a == Len(past)
            n == PayloadLen(f)
            pkt == ubxDecode(f)
<1>1. /\ n \in Nat /\ n <= UBX_MAX_PAYLOAD /\ pkt \in UbxBytes /\ Framed(pkt) = SubSeq(f, 1, n + 8)
  <2>1. /\ n \in 0 .. UBX_MAX_PAYLOAD /\ pkt \in UbxBytes /\ Framed(pkt) = SubSeq(f, 1, n + 8)
    BY DecodeAcceptsOnlyFrames, Zenon
  <2>. HIDE DEF n, pkt
  <2>. QED
    BY <2>1, UbxCodecAssumption
<1>2. Len(f) = n + 8
  <2>. HIDE DEF n
  <2>1. Len(f) = 8 + n
    BY DEF n
  <2>. QED
    BY <1>1, <2>1
<1>3. Framed(pkt) = f
  <2>. HIDE DEF n, pkt
  <2>1. SubSeq(f, 1, Len(f)) = f
    BY SubSeqFull
  <2>. QED
    BY <1>1, <1>2, <2>1, Zenon
<1>4. /\ a \in Nat /\ all \in Seq(Byte) /\ Len(all) \in Nat /\ a + (n + 8) <= Len(all)
      /\ \A k \in 1 .. n + 8 : all[a + k] = f[k]
  <2>. DEFINE fr == f \o rest
              s == past \o fr
  <2>1. fr \in Seq(Byte) /\ s \in Seq(Byte)
    BY Concat
  <2>2. /\ Len(fr) = Len(f) + Len(rest) /\ Len(rest) \in Nat /\ \A k \in 1 .. Len(f) : fr[k] = f[k]
    BY Concat, Zenon
  <2>3. all = s
    BY DEF Stream
  <2>4. /\ Len(s) = a + Len(fr) /\ a \in Nat /\ \A k \in 1 .. Len(fr) : s[a + k] = fr[k]
    <3>. HIDE DEF fr
    <3>. QED
      BY <2>1, Concat, Zenon
  <2>. HIDE DEF all, a, n, fr, s
  <2>5. Len(fr) \in Nat /\ n + 8 <= Len(fr)
    BY <1>1, <1>2, <2>2, SMTT(30)
  <2>6. \A k \in 1 .. n + 8 : k \in 1 .. Len(f) /\ k \in 1 .. Len(fr)
    BY <1>1, <1>2, <2>5
  <2>7. \A k \in 1 .. n + 8 : s[a + k] = f[k]
    BY <2>2, <2>4, <2>6
  <2>. QED
    BY <1>1, <2>1, <2>3, <2>4, <2>5, <2>7
<1>. HIDE DEF all, a, n, pkt
<1>5. a + 8 + n <= Len(all) /\ a + 8 + n = a + (n + 8) /\ a \in 0 .. Len(all) - 8
  BY <1>1, <1>4
<1>6. \A k \in 1 .. 8 : all[a + k] = f[k]
  <2>1. \A k \in 1 .. 8 : k \in 1 .. n + 8
    BY <1>1
  <2>. QED
    BY <1>4, <2>1
<1>7. SubSeq(all, a + 1, a + 8 + n) = f
  <2>1. n + 8 \in Nat
    BY <1>1
  <2>2. SubSeq(all, a + 1, a + (n + 8)) = f
    BY <1>2, <1>4, <2>1, Piece
  <2>. QED
    BY <1>5, <2>2, Zenon
<1>8. pkt = [cls |-> all[a + 3], id |-> all[a + 4], payload |-> SubSeq(all, a + 7, a + 6 + n)]
  <2>. DEFINE p == SubSeq(f, 7, 6 + n)
  <2>1. pkt = [cls |-> f[3], id |-> f[4], payload |-> p]
    BY DEF pkt, ubxDecode, n
  <2>2. p \in Seq(Byte) /\ Len(p) = n /\ \A k \in 1 .. n : p[k] = f[k + 6]
    <3>1. \A i \in 7 .. 6 + n : f[i] \in Byte
      <4>1. \A i \in 1 .. n + 8 : f[i] \in Byte
        BY <1>2
      <4>. QED
        BY <1>1, <4>1
    <3>2. 7 \in Int /\ 6 + n \in Int /\ 6 + n <= Len(f) /\ Len(f) \in Nat
      BY <1>1, <1>2
    <3>3. p \in Seq(Byte) /\ Len(p) = n
      BY <1>1, <3>1, <3>2
    <3>4. \A k \in 1 .. n : p[k] = f[k + 6]
      BY <1>1, <3>1, <3>2
    <3>. QED
      BY <3>3, <3>4
  <2>. HIDE DEF p
  <2>3. SubSeq(all, a + 6 + 1, a + 6 + n) = p
    <3>1. PICK b \in Nat : b = a + 6 /\ b + n <= Len(all)
      <4>1. a + 6 \in Nat /\ a + 6 + n <= Len(all)
        BY <1>1, <1>4
      <4>. QED
        BY <4>1
    <3>2. ASSUME NEW k \in 1 .. n PROVE all[b + k] = p[k]
      <4>1. k + 6 \in 1 .. n + 8 /\ a + (k + 6) = b + k
        BY <1>1, <1>4, <3>1
      <4>2. all[a + (k + 6)] = f[k + 6]
        BY <1>4, <4>1
      <4>. QED
        BY <2>2, <4>1, <4>2
    <3>3. SubSeq(all, b + 1, b + n) = p
      <4>1. all \in Seq(Byte) /\ n \in Nat /\ p \in Seq(Byte) /\ Len(p) = n
        BY <1>1, <1>4, <2>2
      <4>2. b \in Nat /\ b + n <= Len(all) /\ \A k \in 1 .. n : all[b + k] = p[k]
        BY <3>1, <3>2
      <4>. HIDE DEF all
      <4>. QED
        BY <4>1, <4>2, Piece, ZenonT(40)
    <3>. QED
      BY <3>1, <3>3
  <2>4. a + 6 + 1 = a + 7 /\ 3 \in 1 .. 8 /\ 4 \in 1 .. 8
    BY <1>4
  <2>5. all[a + 3] = f[3] /\ all[a + 4] = f[4]
    BY <1>6, <2>4
  <2>. QED
    BY <2>1, <2>3, <2>4, <2>5
<1>9. U16(all[a + 5], all[a + 6]) = n
  <2>1. 5 \in 1 .. 8 /\ 6 \in 1 .. 8
    OBVIOUS
  <2>2. all[a + 5] = f[5] /\ all[a + 6] = f[6]
    BY <1>6, <2>1
  <2>. QED
    BY <2>2 DEF n, PayloadLen
<1>10. FrameAt(all, a)
  BY <1>1, <1>3, <1>5, <1>7, <1>8, <1>9 DEF FrameAt
<1>11. PICK j \in 1 .. Len(msgs) : Len(upTo[j - 1]) = a
  BY <1>5, <1>10 DEF FalseFrame, all
<1>. DEFINE b == msgs[j].bytes
<1>12. /\ Len(b) \in Nat /\ \A k \in 1 .. Len(b) : all[a + k] = b[k]
  BY <1>11, MessageInStream, Zenon DEF all
<1>13. b \in Seq(Byte) /\ Len(b) = 8 + PayloadLen(b) /\ PayloadLen(b) \in Nat
  <2>1. WellFramed(msgs[j])
    BY MessagesAreHeardAsMeant
  <2>. QED
    BY <2>1, UbxCodecAssumption DEF WellFramed, UBX_FRAME_OVERHEAD
<1>. HIDE DEF b, upTo
<1>14. PayloadLen(b) = n
  <2>1. 5 \in 1 .. 8 /\ 6 \in 1 .. 8 /\ 5 \in 1 .. Len(b) /\ 6 \in 1 .. Len(b)
    BY <1>13
  <2>2. b[5] = f[5] /\ b[6] = f[6]
    BY <1>6, <1>12, <2>1
  <2>. QED
    BY <2>2 DEF n, PayloadLen
<1>15. Len(b) = n + 8
  BY <1>1, <1>13, <1>14
<1>16. \A k \in 1 .. n + 8 : f[k] = b[k]
  BY <1>4, <1>12, <1>15
<1>17. f = b
  BY <1>2, <1>13, <1>15, <1>16, SeqEqual
<1>. QED
  BY <1>11, <1>17 DEF b, upTo, a

(* A false frame stays one, whatever is sent after it.                      *)
LEMMA FalseFrameStays ==
  ASSUME NEW msgs \in Seq(AllMessages), NEW msg \in AllMessages, FalseFrame(msgs)
  PROVE  FalseFrame(Append(msgs, msg))
<1>. DEFINE upTo == BytesOfFirst(msgs)
            longer == Append(msgs, msg)
            more == BytesOfFirst(longer)
            N == Len(msgs)
            s == upTo[N]
            t == msg.bytes
            all == more[Len(longer)]
<1>1. PICK a \in 0 .. Len(s) - 8 : FrameAt(s, a) /\ \A i \in 1 .. N : Len(upTo[i - 1]) # a
  BY DEF FalseFrame
<1>2. s \in Seq(Byte) /\ t \in Seq(Byte) /\ N \in Nat
  BY StreamType, MessageBytes DEF Stream
<1>3. all = s \o t
  BY StreamGrows DEF Stream
<1>4. /\ Len(longer) = N + 1 /\ \A i \in 0 .. N : more[i] = upTo[i]
  <2>1. Len(longer) = N + 1
    OBVIOUS
  <2>2. \A i \in 0 .. N : more[i] = upTo[i]
    BY BytesGrow, Zenon
  <2>. QED
    BY <2>1, <2>2
<1>. HIDE DEF all, longer, more, upTo
<1>. DEFINE l == Len(s)
<1>5. /\ all \in Seq(Byte) /\ Len(all) = l + Len(t) /\ l \in Nat /\ Len(t) \in Nat
      /\ \A k \in 1 .. l : all[k] = s[k] /\ s[k] \in Byte
  <2>. HIDE DEF s, t
  <2>. DEFINE w == s \o t
  <2>1. w \in Seq(Byte)
    BY <1>2, Concat
  <2>2. /\ Len(w) = Len(s) + Len(t) /\ Len(s) \in Nat /\ Len(t) \in Nat
        /\ \A k \in 1 .. Len(s) : w[k] = s[k]
    BY <1>2, Concat, Zenon
  <2>3. \A k \in 1 .. Len(s) : s[k] \in Byte
    BY <1>2
  <2>4. all = w
    BY <1>3
  <2>. HIDE DEF w
  <2>. QED
    BY <2>1, <2>2, <2>3, <2>4
<1>. HIDE DEF s, t, l
<1>6. a \in Nat /\ a + 8 <= l /\ a \in 0 .. Len(all) - 8
  BY <1>1, <1>5 DEF l
<1>. DEFINE n == U16(s[a + 5], s[a + 6])
<1>7. /\ all[a + 3] = s[a + 3] /\ all[a + 4] = s[a + 4] /\ all[a + 5] = s[a + 5] /\ all[a + 6] = s[a + 6]
      /\ s[a + 5] \in Byte /\ s[a + 6] \in Byte
  <2>1. a + 3 \in 1 .. l /\ a + 4 \in 1 .. l /\ a + 5 \in 1 .. l /\ a + 6 \in 1 .. l
    BY <1>5, <1>6
  <2>. QED
    BY <1>5, <2>1
<1>8. n \in Nat /\ n <= UBX_MAX_PAYLOAD /\ a + 8 + n <= l
  <2>1. n <= UBX_MAX_PAYLOAD /\ a + 8 + n <= l
    BY <1>1 DEF FrameAt, l
  <2>2. n \in Nat
    <3>1. PICK lo \in Byte, hi \in Byte : lo = s[a + 5] /\ hi = s[a + 6]
      BY <1>7
    <3>2. lo + 256 * hi \in Nat
      BY DEF Byte
    <3>. QED
      BY <3>1, <3>2, Zenon DEF U16
  <2>. QED
    BY <2>1, <2>2
<1>9. n = U16(all[a + 5], all[a + 6])
  BY <1>7
<1>10. a + 8 + n <= Len(all)
  <2>. HIDE DEF n
  <2>. QED
    BY <1>5, <1>6, <1>8
<1>11. /\ SubSeq(all, a + 1, a + 8 + n) = SubSeq(s, a + 1, a + 8 + n)
       /\ SubSeq(all, a + 7, a + 6 + n) = SubSeq(s, a + 7, a + 6 + n)
  <2>. HIDE DEF n
  <2>1. a + 8 + n \in a + 1 - 1 .. Len(s) /\ a + 1 \in 1 .. Len(s) + 1
    BY <1>5, <1>6, <1>8 DEF l
  <2>2. a + 6 + n \in a + 7 - 1 .. Len(s) /\ a + 7 \in 1 .. Len(s) + 1
    BY <1>5, <1>6, <1>8 DEF l
  <2>3. SubSeq(s \o t, a + 1, a + 8 + n) = SubSeq(s, a + 1, a + 8 + n)
    BY <1>2, <2>1, SubSeqOfConcat1
  <2>4. SubSeq(s \o t, a + 7, a + 6 + n) = SubSeq(s, a + 7, a + 6 + n)
    BY <1>2, <2>2, SubSeqOfConcat1
  <2>. QED
    BY <1>3, <2>3, <2>4, Zenon
<1>12. SubSeq(s, a + 1, a + 8 + n)
         = Framed([cls |-> s[a + 3], id |-> s[a + 4], payload |-> SubSeq(s, a + 7, a + 6 + n)])
  BY <1>1 DEF FrameAt
<1>13. FrameAt(all, a)
  <2>. HIDE DEF n
  <2>1. /\ SubSeq(all, a + 1, a + 8 + n)
             = Framed([cls |-> all[a + 3], id |-> all[a + 4], payload |-> SubSeq(all, a + 7, a + 6 + n)])
    BY <1>7, <1>11, <1>12
  <2>. QED
    BY <1>8, <1>9, <1>10, <2>1 DEF FrameAt
<1>14. ASSUME NEW i \in 1 .. Len(longer) PROVE Len(more[i - 1]) # a
  <2>1. i - 1 \in 0 .. N
    BY <1>2, <1>4
  <2>2. CASE i = N + 1
    <3>1. more[i - 1] = s
      <4>1. i - 1 = N
        BY <1>2, <2>2
      <4>. QED
        BY <1>4, <2>1, <4>1 DEF s
    <3>. QED
      BY <1>5, <1>6, <3>1 DEF l
  <2>3. CASE i # N + 1
    <3>1. i \in 1 .. N
      BY <1>2, <1>4, <2>3
    <3>. QED
      BY <1>1, <1>4, <2>1, <3>1
  <2>. QED
    BY <2>2, <2>3
<1>15. FalseFrame(longer)
  BY <1>6, <1>13, <1>14 DEF FalseFrame, all, more
<1>. QED
  BY <1>15 DEF longer
===============================================================================
