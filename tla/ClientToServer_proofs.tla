----------------------- MODULE ClientToServer_proofs -----------------------
(* The safety properties of ClientToServer for any sizes of messages and   *)
(* buffers and any number of writes.                                       *)
EXTENDS ClientToServer, TLAPS

(* Parts are what the sizes of the writes allow. *)
LEMMA PartTypes ==
  ASSUME NEW u \in ValidParts
  PROVE  /\ u.n \in 1..MaxWrites /\ u.i \in 1..Size[u.n]
         /\ u.n \in Nat /\ u.i \in Nat /\ Size[u.n] \in Nat \ {0}
         /\ u = Part(u.n, u.i)
  BY RequestAssumption DEF ValidParts, Part

(* What a write puts behind the wire. *)
LEMMA BlockParts ==
  ASSUME NEW n \in 1..MaxWrites
  PROVE  /\ [i \in 1..Size[n] |-> Part(n, i)] \in Seq(ValidParts)
         /\ Len([i \in 1..Size[n] |-> Part(n, i)]) = Size[n]
         /\ Size[n] \in Nat \ {0}
<1>1. Size[n] \in Nat \ {0}
  BY RequestAssumption
<1>2. \A i \in 1..Size[n] : Part(n, i) \in ValidParts
  BY DEF ValidParts
<1> QED
  BY <1>1, <1>2

(* What is left of the wire after a chunk of k parts has been read. *)
LEMMA RestOfWire ==
  ASSUME wire \in Seq(ValidParts), NEW k \in 1..Len(wire)
  PROVE  /\ SubSeq(wire, k + 1, Len(wire)) \in Seq(ValidParts)
         /\ Len(SubSeq(wire, k + 1, Len(wire))) = Len(wire) - k
         /\ \A p \in 1..(Len(wire) - k) : SubSeq(wire, k + 1, Len(wire))[p] = wire[p + k]
         /\ SubSeq(wire, 1, k) \in Seq(ValidParts)
         /\ Len(SubSeq(wire, 1, k)) = k
         /\ \A p \in 1..k : SubSeq(wire, 1, k)[p] = wire[p]
  OBVIOUS

(* What the steps below use of the invariant's types. *)
LEMMA Basics ==
  ASSUME TypeOK
  PROVE  /\ Len(wire) \in Nat /\ Len(handled) \in Nat /\ written \in Nat
         /\ wire \in Seq(ValidParts)
         /\ \A p \in 1..Len(wire) :
              /\ wire[p].n \in 1..MaxWrites /\ wire[p].n \in Nat
              /\ wire[p].i \in 1..Size[wire[p].n] /\ wire[p].i \in Nat
              /\ Size[wire[p].n] \in Nat \ {0}
         /\ \A k \in 1..Len(handled) : handled[k] \in Nat
<1>1. wire \in Seq(ValidParts) /\ handled \in Seq(0..MaxWrites) /\ written \in Nat
  BY RequestAssumption DEF TypeOK
<1>2. \A p \in 1..Len(wire) : wire[p] \in ValidParts
  BY <1>1
<1>3. \A k \in 1..Len(handled) : handled[k] \in Nat
  BY <1>1, RequestAssumption
<1> QED
  BY <1>1, <1>2, <1>3, PartTypes

(* No write yet, nothing read. *)
LEMMA RequestInit == Init => RequestInv
<1> SUFFICES ASSUME Init PROVE RequestInv
  OBVIOUS
<1>1. /\ written = 0 /\ wire = << >> /\ handled = << >> /\ Len(wire) = 0 /\ Len(handled) = 0
      /\ open = TRUE /\ stage = "credentials" /\ cut = FALSE
  BY DEF Init
<1>2. TypeOK
  <2>1. << >> \in Seq(ValidParts) /\ << >> \in Seq(0..MaxWrites) /\ 0 \in 0..MaxWrites
    BY RequestAssumption
  <2> QED
    BY <1>1, <2>1 DEF TypeOK
<1>3. WireInOrder
  BY <1>1 DEF WireInOrder
<1>4. HandledBeforeWire /\ WholeInOrder /\ NothingLostUnlessCut
  BY <1>1 DEF HandledBeforeWire, WholeInOrder, NothingLostUnlessCut
<1> QED
  BY <1>2, <1>3, <1>4 DEF RequestInv

(* A write is put behind all others. *)
LEMMA WriteStep == ASSUME RequestInv, Write PROVE RequestInv'
<1> DEFINE n == written + 1
           L == Len(wire)
           block == [i \in 1..Size[n] |-> Part(n, i)]
<1>1. /\ TypeOK /\ WireInOrder /\ HandledBeforeWire /\ WholeInOrder /\ NothingLostUnlessCut
  BY DEF RequestInv
<1>2. /\ n \in 1..MaxWrites /\ written' = n /\ open /\ wire' = wire \o block
      /\ open' = open /\ stage' = stage /\ handled' = handled /\ cut' = cut
  BY <1>1, RequestAssumption DEF Write, TypeOK
<1>3. /\ L \in Nat /\ Len(handled) \in Nat /\ written \in Nat /\ wire \in Seq(ValidParts)
      /\ \A p \in 1..L : wire[p].n \in Nat /\ wire[p].i \in Nat /\ wire[p].n <= written
  BY <1>1, Basics DEF WireInOrder
<1>4. block \in Seq(ValidParts) /\ Len(block) = Size[n] /\ Size[n] \in Nat \ {0}
  BY <1>2, BlockParts
<1>5. TypeOK'
  <2>1. wire' \in Seq(ValidParts)
    BY <1>2, <1>3, <1>4
  <2>2. written' \in 0..MaxWrites
    BY <1>2, RequestAssumption
  <2> QED
    BY <1>1, <1>2, <2>1, <2>2 DEF TypeOK
<1>6. /\ Len(wire') = L + Size[n]
      /\ \A p \in 1..L : wire'[p] = wire[p]
      /\ \A p \in (L + 1)..(L + Size[n]) : wire'[p] = Part(n, p - L)
  BY <1>2, <1>3, <1>4
<1> HIDE DEF block
<1>7. ASSUME NEW p \in (L + 1)..(L + Size[n]) PROVE wire'[p].n = n /\ wire'[p].i = p - L
  <2>1. wire'[p] = Part(n, p - L)
    BY <1>6
  <2> QED
    BY <2>1 DEF Part
<1>8. WireInOrder'
  <2>1. ASSUME NEW p \in 1..Len(wire'), NEW q \in 1..Len(wire'), p < q
        PROVE  Before(wire'[p], wire'[q])
    <3>1. CASE q <= L
      <4>1. p \in 1..L /\ q \in 1..L /\ wire'[p] = wire[p] /\ wire'[q] = wire[q]
        BY <1>3, <1>4, <1>6, <2>1, <3>1
      <4> QED
        BY <1>1, <2>1, <4>1 DEF WireInOrder
    <3>2. CASE q > L /\ p <= L
      <4>1. wire'[p] = wire[p] /\ wire[p].n < n
        BY <1>3, <1>4, <1>6, <3>2
      <4>2. wire'[q].n = n
        BY <1>3, <1>4, <1>6, <1>7, <3>2
      <4> QED
        BY <4>1, <4>2 DEF Before
    <3>3. CASE p > L
      <4>1. /\ wire'[p].n = n /\ wire'[p].i = p - L
            /\ wire'[q].n = n /\ wire'[q].i = q - L
        BY <1>3, <1>4, <1>6, <1>7, <2>1, <3>3
      <4> QED
        BY <1>3, <1>4, <1>6, <2>1, <4>1 DEF Before
    <3> QED
      BY <1>3, <1>4, <1>6, <3>1, <3>2, <3>3
  <2>2. ASSUME NEW p \in 1..Len(wire') PROVE wire'[p].n <= written'
    <3>1. CASE p <= L
      BY <1>2, <1>3, <1>4, <1>6, <3>1
    <3>2. CASE p > L
      BY <1>2, <1>3, <1>4, <1>6, <1>7, <3>2
    <3> QED
      BY <1>3, <1>4, <1>6, <3>1, <3>2
  <2>3. ASSUME NEW p \in 1..(Len(wire') - 1) PROVE Follows(wire'[p], wire'[p + 1])
    <3>1. CASE p < L
      <4>1. p \in 1..(L - 1) /\ wire'[p] = wire[p] /\ wire'[p + 1] = wire[p + 1]
        BY <1>3, <1>4, <1>6, <3>1
      <4> QED
        BY <1>1, <4>1 DEF WireInOrder
    <3>2. CASE p = L
      <4>1. wire[p] = Part(written, Size[written]) /\ wire'[p] = wire[p]
        BY <1>1, <1>2, <1>3, <1>6, <3>2 DEF WireInOrder
      <4>2. wire'[p + 1] = Part(n, 1)
        BY <1>3, <1>4, <1>6, <3>2
      <4> QED
        BY <4>1, <4>2 DEF Follows, Part
    <3>3. CASE p > L
      <4>1. /\ p \in (L + 1)..(L + Size[n]) /\ p + 1 \in (L + 1)..(L + Size[n])
            /\ (p + 1) - L = (p - L) + 1
        BY <1>3, <1>4, <1>6, <3>3
      <4>2. wire'[p] = Part(n, p - L) /\ wire'[p + 1] = Part(n, (p - L) + 1)
        BY <1>6, <4>1
      <4> QED
        BY <4>2 DEF Follows, Part
    <3> QED
      BY <1>3, <1>4, <1>6, <3>1, <3>2, <3>3
  <2>4. wire'[Len(wire')] = Part(written', Size[written'])
    BY <1>2, <1>3, <1>4, <1>6
  <2> QED
    BY <2>1, <2>2, <2>3, <2>4 DEF WireInOrder
<1>9. HandledBeforeWire'
  <2>1. \A k \in 1..Len(handled) : handled[k] \in Nat /\ handled[k] <= written
    BY <1>1, Basics DEF HandledBeforeWire
  <2>2. \A k \in 1..Len(handled') : handled'[k] <= written'
    BY <1>2, <1>3, <2>1
  <2>3. ASSUME NEW k \in 1..Len(handled'), NEW p \in 1..Len(wire')
        PROVE  handled'[k] < wire'[p].n
    <3>1. CASE p <= L
      BY <1>1, <1>2, <1>3, <1>4, <1>6, <3>1 DEF HandledBeforeWire
    <3>2. CASE p > L
      BY <1>2, <1>3, <1>4, <1>6, <1>7, <2>1, <3>2
    <3> QED
      BY <1>3, <1>4, <1>6, <3>1, <3>2
  <2> QED
    BY <2>2, <2>3 DEF HandledBeforeWire
<1>10. WholeInOrder'
  <2>1. ASSUME NEW i \in 1..Len(handled), NEW j \in 1..Len(handled), i < j,
               handled[j] # Incomplete
        PROVE  handled[i] < handled[j] /\ handled[j] <= n
    BY <1>1, <1>3, <2>1, Basics DEF WholeInOrder
  <2> QED
    BY <1>2, <2>1 DEF WholeInOrder
<1>11. NothingLostUnlessCut'
  <2> SUFFICES ASSUME ~cut, stage # "over" PROVE NothingLostUnlessCut'
    BY <1>2 DEF NothingLostUnlessCut
  <2>1. /\ \A i \in 1..Len(handled) : handled[i] = i
        /\ wire # << >> => wire[1] = Part(Len(handled) + 1, 1)
        /\ L > 0 \/ Len(handled) = written
    BY <1>1, <1>2 DEF NothingLostUnlessCut
  <2>2. wire'[1] = Part(Len(handled) + 1, 1)
    <3>1. CASE L = 0
      BY <1>3, <1>4, <1>6, <2>1, <3>1
    <3>2. CASE L > 0
      BY <1>3, <1>6, <2>1, <3>2
    <3> QED
      BY <1>3, <3>1, <3>2
  <2>3. Len(wire') > 0
    BY <1>3, <1>4, <1>6
  <2> QED
    BY <1>2, <2>1, <2>2, <2>3 DEF NothingLostUnlessCut
<1> QED
  BY <1>5, <1>8, <1>9, <1>10, <1>11 DEF RequestInv

(* One read takes a chunk from the front, whatever it is parsed as. *)
LEMMA ReadStep ==
  ASSUME RequestInv, stage # "over", NEW chunk \in Chunks, Read(chunk),
         UNCHANGED <<written, open>>, stage' \in {"credentials", "reading"}
  PROVE  RequestInv'
<1> DEFINE L == Len(wire)
           n == wire[1].n
<1>1. TypeOK /\ WireInOrder /\ HandledBeforeWire /\ WholeInOrder /\ NothingLostUnlessCut
  BY DEF RequestInv
<1>2. /\ L \in Nat /\ Len(handled) \in Nat /\ written \in Nat /\ wire \in Seq(ValidParts)
      /\ \A p \in 1..L :
           /\ wire[p].n \in 1..MaxWrites /\ wire[p].n \in Nat /\ wire[p].n <= written
           /\ wire[p].i \in 1..Size[wire[p].n] /\ wire[p].i \in Nat
           /\ Size[wire[p].n] \in Nat \ {0}
      /\ \A i \in 1..Len(handled) : handled[i] \in Nat
  BY <1>1, Basics DEF WireInOrder
<1>3. PICK k \in 1..L : chunk = SubSeq(wire, 1, k)
  BY <1>2 DEF Chunks
<1>4. /\ Len(chunk) = k /\ \A p \in 1..k : chunk[p] = wire[p]
      /\ wire' \in Seq(ValidParts) /\ Len(wire') = L - k
      /\ \A p \in 1..(L - k) : wire'[p] = wire[p + k]
  BY <1>2, <1>3, RestOfWire DEF Read
<1>5. /\ chunk[1] = wire[1] /\ n \in 1..MaxWrites /\ n \in Nat /\ n <= written
      /\ Size[n] \in Nat \ {0} /\ k \in Nat \ {0} /\ k <= L /\ L - k \in Nat
  <2>1. k \in Nat \ {0} /\ k <= L /\ L - k \in Nat /\ 1 \in 1..L /\ 1 \in 1..k
    BY <1>2, <1>3
  <2>2. chunk[1] = wire[1]
    BY <1>4, <2>1
  <2> QED
    BY <1>2, <2>1, <2>2
<1>6. Parsed(chunk) \in {n, 0}
  BY <1>5 DEF Parsed, Incomplete
<1>7. Parsed(chunk) \in 0..MaxWrites /\ Parsed(chunk) <= written /\ Parsed(chunk) \in Nat
  BY <1>2, <1>5, <1>6, RequestAssumption
<1>8. /\ handled' = Append(handled, Parsed(chunk)) /\ written' = written /\ open' = open
      /\ cut' = (cut \/ ~BeginsWhole(chunk) \/ Len(chunk) # Size[chunk[1].n])
  BY DEF Read
<1>9. /\ handled' \in Seq(0..MaxWrites)
      /\ Len(handled') = Len(handled) + 1
      /\ \A i \in 1..Len(handled) : handled'[i] = handled[i]
      /\ handled'[Len(handled) + 1] = Parsed(chunk)
  BY <1>1, <1>7, <1>8 DEF TypeOK
<1>10. TypeOK'
  <2>1. cut' \in BOOLEAN
    BY <1>8
  <2> QED
    BY <1>1, <1>4, <1>8, <1>9, <2>1 DEF TypeOK
<1>11. WireInOrder'
  <2>1. ASSUME NEW p \in 1..Len(wire'), NEW q \in 1..Len(wire'), p < q
        PROVE  Before(wire'[p], wire'[q])
    <3>1. /\ p + k \in 1..L /\ q + k \in 1..L /\ p + k < q + k
          /\ wire'[p] = wire[p + k] /\ wire'[q] = wire[q + k]
      BY <1>2, <1>4, <1>5, <2>1
    <3> QED
      BY <1>1, <3>1 DEF WireInOrder
  <2>2. ASSUME NEW p \in 1..Len(wire') PROVE wire'[p].n <= written'
    <3>1. p + k \in 1..L /\ wire'[p] = wire[p + k]
      BY <1>2, <1>4, <1>5
    <3> QED
      BY <1>2, <1>8, <3>1
  <2>3. ASSUME NEW p \in 1..(Len(wire') - 1) PROVE Follows(wire'[p], wire'[p + 1])
    <3>1. L \in Nat /\ k \in Nat /\ Len(wire') = L - k /\ p \in 1..(L - k - 1)
      BY <1>2, <1>4, <1>5
    <3>2. /\ p + k \in 1..(L - 1) /\ p \in 1..(L - k) /\ p + 1 \in 1..(L - k)
          /\ (p + 1) + k = (p + k) + 1
      BY <3>1
    <3>3. wire'[p] = wire[p + k] /\ wire'[p + 1] = wire[(p + k) + 1]
      BY <1>4, <3>2
    <3> QED
      BY <1>1, <3>2, <3>3 DEF WireInOrder
  <2>4. ASSUME open', wire' # << >> PROVE wire'[Len(wire')] = Part(written', Size[written'])
    <3>1. Len(wire') \in 1..(L - k)
      BY <1>4, <1>5, <2>4
    <3>2. wire'[Len(wire')] = wire[L] /\ wire # << >>
      BY <1>2, <1>4, <1>5, <3>1
    <3> QED
      BY <1>1, <1>8, <2>4, <3>2 DEF WireInOrder
  <2> QED
    BY <2>1, <2>2, <2>3, <2>4 DEF WireInOrder
<1>12. ASSUME NEW p \in 1..Len(wire') PROVE Parsed(chunk) < wire'[p].n
  <2>1. p + k \in 1..L /\ wire'[p] = wire[p + k]
    BY <1>2, <1>4, <1>5
  <2>2. CASE ~BeginsWhole(chunk)
    BY <1>2, <2>1, <2>2 DEF Parsed, Incomplete
  <2>3. CASE BeginsWhole(chunk)
    <3>1. Size[n] \in 1..k /\ wire[Size[n]] = Part(n, Size[n])
      <4>1. Len(chunk) >= Size[n] /\ \A i \in 1..Size[n] : chunk[i] = Part(n, i)
        BY <1>5, <2>3 DEF BeginsWhole
      <4>2. Size[n] \in 1..k /\ Size[n] \in 1..Size[n]
        BY <1>4, <1>5, <4>1
      <4> QED
        BY <1>4, <4>1, <4>2
    <3>2. Before(wire[Size[n]], wire[p + k])
      <4>1. Size[n] \in 1..L /\ Size[n] < p + k
        BY <1>2, <1>4, <1>5, <3>1
      <4> QED
        BY <1>1, <2>1, <4>1 DEF WireInOrder
    <3>3. n < wire[p + k].n
      <4>1. n < wire[p + k].n \/ (n = wire[p + k].n /\ Size[n] < wire[p + k].i)
        BY <3>1, <3>2 DEF Before, Part
      <4>2. wire[p + k].i <= Size[wire[p + k].n]
        BY <1>2, <2>1
      <4> QED
        BY <1>2, <1>5, <2>1, <4>1, <4>2
    <3> QED
      BY <1>5, <2>1, <2>3, <3>3 DEF Parsed
  <2> QED
    BY <2>2, <2>3
<1>13. HandledBeforeWire'
  <2>1. ASSUME NEW i \in 1..Len(handled') PROVE handled'[i] <= written'
    BY <1>1, <1>2, <1>7, <1>8, <1>9 DEF HandledBeforeWire
  <2>2. ASSUME NEW i \in 1..Len(handled'), NEW p \in 1..Len(wire')
        PROVE  handled'[i] < wire'[p].n
    <3>1. p + k \in 1..L /\ wire'[p] = wire[p + k]
      BY <1>2, <1>4, <1>5
    <3>2. CASE i <= Len(handled)
      BY <1>1, <1>2, <1>9, <3>1, <3>2 DEF HandledBeforeWire
    <3>3. CASE i = Len(handled) + 1
      BY <1>9, <1>12, <3>3
    <3> QED
      BY <1>2, <1>9, <3>2, <3>3
  <2> QED
    BY <2>1, <2>2 DEF HandledBeforeWire
<1>14. WholeInOrder'
  <2>1. ASSUME NEW i \in 1..Len(handled'), NEW j \in 1..Len(handled'),
               i < j, handled'[j] # Incomplete
        PROVE  handled'[i] < handled'[j] /\ handled'[j] <= written'
    <3>1. CASE j <= Len(handled)
      BY <1>1, <1>2, <1>8, <1>9, <2>1, <3>1 DEF WholeInOrder
    <3>2. CASE j = Len(handled) + 1
      <4>1. i \in 1..Len(handled) /\ handled'[j] = n
        BY <1>2, <1>6, <1>9, <2>1, <3>2 DEF Incomplete
      <4>2. handled[i] < n
        BY <1>1, <1>2, <1>5, <4>1 DEF HandledBeforeWire
      <4> QED
        BY <1>5, <1>8, <1>9, <4>1, <4>2
    <3> QED
      BY <1>2, <1>9, <3>1, <3>2
  <2> QED
    BY <2>1 DEF WholeInOrder, Incomplete
<1>15. NothingLostUnlessCut'
  <2> SUFFICES ASSUME ~cut' PROVE NothingLostUnlessCut'
    BY DEF NothingLostUnlessCut
  <2>1. ~cut /\ BeginsWhole(chunk) /\ k = Size[n]
    BY <1>4, <1>5, <1>8
  <2>2. /\ \A i \in 1..Len(handled) : handled[i] = i
        /\ wire[1] = Part(Len(handled) + 1, 1)
    BY <1>1, <1>2, <1>5, <2>1 DEF NothingLostUnlessCut
  <2>3. n = Len(handled) + 1 /\ Parsed(chunk) = n
    BY <1>5, <2>1, <2>2 DEF Parsed, Part
  <2>4. wire[k] = Part(n, Size[n])
    BY <1>4, <1>5, <2>1 DEF BeginsWhole
  <2>5. \A i \in 1..Len(handled') : handled'[i] = i
    BY <1>2, <1>9, <2>2, <2>3
  <2>6. ASSUME wire' # << >> PROVE wire'[1] = Part(Len(handled') + 1, 1)
    <3>1. Len(wire') # 0
      BY <1>4, <2>6
    <3>2. k \in 1..(L - 1) /\ k + 1 \in 1..L /\ wire'[1] = wire[k + 1]
      BY <1>2, <1>4, <1>5, <3>1
    <3>3. Follows(wire[k], wire[k + 1]) /\ wire[k + 1].i \in 1..Size[wire[k + 1].n]
      BY <1>1, <1>2, <3>2 DEF WireInOrder
    <3>4. wire[k + 1] # Part(n, Size[n] + 1)
      BY <1>5, <3>3 DEF Part
    <3>5. wire[k + 1] = Part(n + 1, 1)
      BY <2>4, <3>3, <3>4 DEF Follows, Part
    <3> QED
      BY <1>9, <2>3, <3>2, <3>5
  <2>7. ASSUME open', Len(wire') = 0 PROVE Len(handled') = written'
    <3>1. k = L /\ wire # << >>
      BY <1>2, <1>4, <1>5, <2>7
    <3>2. wire[k] = Part(written, Size[written])
      BY <1>1, <1>8, <2>7, <3>1 DEF WireInOrder
    <3> QED
      BY <1>8, <1>9, <2>3, <2>4, <3>2 DEF Part
  <2>8. Len(wire') \in Nat
    BY <1>4, <1>5
  <2> QED
    BY <2>5, <2>6, <2>7, <2>8 DEF NothingLostUnlessCut
<1> QED
  BY <1>10, <1>11, <1>13, <1>14, <1>15 DEF RequestInv

(* What is lost with the connection is the end of the wire. *)
LEMMA CloseStep == ASSUME RequestInv, Close PROVE RequestInv'
<1>1. TypeOK /\ WireInOrder /\ HandledBeforeWire /\ WholeInOrder /\ NothingLostUnlessCut
  BY DEF RequestInv
<1>2. Len(wire) \in Nat /\ wire \in Seq(ValidParts)
  BY <1>1, Basics
<1>3. PICK k \in 0..Len(wire) : wire' = SubSeq(wire, 1, k)
  BY DEF Close
<1>4. /\ wire' \in Seq(ValidParts) /\ Len(wire') = k /\ \A p \in 1..k : wire'[p] = wire[p]
      /\ k \in Nat /\ k <= Len(wire)
  BY <1>2, <1>3
<1>5. /\ written' = written /\ stage' = stage /\ handled' = handled /\ cut' = cut /\ open' = FALSE
  BY DEF Close
<1>6. TypeOK'
  BY <1>1, <1>4, <1>5 DEF TypeOK
<1>7. WireInOrder'
  <2>1. \A p, q \in 1..k : p < q => Before(wire'[p], wire'[q])
    BY <1>1, <1>2, <1>4 DEF WireInOrder
  <2>2. \A p \in 1..k : wire'[p].n <= written'
    BY <1>1, <1>2, <1>4, <1>5 DEF WireInOrder
  <2>3. ASSUME NEW p \in 1..(k - 1) PROVE Follows(wire'[p], wire'[p + 1])
    <3>1. p \in 1..(Len(wire) - 1) /\ wire'[p] = wire[p] /\ wire'[p + 1] = wire[p + 1]
      BY <1>2, <1>4
    <3> QED
      BY <1>1, <3>1 DEF WireInOrder
  <2> QED
    BY <1>4, <1>5, <2>1, <2>2, <2>3 DEF WireInOrder
<1>8. HandledBeforeWire'
  BY <1>1, <1>2, <1>4, <1>5 DEF HandledBeforeWire
<1>9. WholeInOrder'
  BY <1>1, <1>5 DEF WholeInOrder, Incomplete
<1>10. NothingLostUnlessCut'
  <2>1. wire' # << >> => wire # << >> /\ wire'[1] = wire[1]
    BY <1>2, <1>4
  <2> QED
    BY <1>1, <1>5, <2>1 DEF NothingLostUnlessCut
<1> QED
  BY <1>6, <1>7, <1>8, <1>9, <1>10 DEF RequestInv

(* With an empty wire nothing is left to say of it. *)
LEMMA OverStep ==
  ASSUME RequestInv, wire' = << >>, stage' = "over", open' = FALSE,
         UNCHANGED <<written, handled, cut>>
  PROVE  RequestInv'
<1>1. TypeOK /\ HandledBeforeWire /\ WholeInOrder
  BY DEF RequestInv
<1>2. Len(wire') = 0 /\ wire' \in Seq(ValidParts)
  OBVIOUS
<1>3. TypeOK'
  BY <1>1, <1>2 DEF TypeOK
<1>4. WireInOrder'
  BY <1>2 DEF WireInOrder
<1>5. HandledBeforeWire'
  BY <1>1, <1>2 DEF HandledBeforeWire
<1>6. WholeInOrder'
  BY <1>1 DEF WholeInOrder, Incomplete
<1>7. NothingLostUnlessCut'
  BY DEF NothingLostUnlessCut
<1> QED
  BY <1>3, <1>4, <1>5, <1>6, <1>7 DEF RequestInv

(* Every step keeps the invariant. *)
LEMMA RequestStep == RequestInv /\ [Next]_vars => RequestInv'
<1> SUFFICES ASSUME RequestInv, [Next]_vars PROVE RequestInv'
  OBVIOUS
<1>1. CASE Write
  BY <1>1, WriteStep
<1>2. CASE Close
  BY <1>2, CloseStep
<1>3. CASE ReadCredentials
  <2>1. PICK chunk \in Chunks :
          \/ Read(chunk) /\ stage' = "reading" /\ UNCHANGED open
          \/ stage' = "over" /\ open' = FALSE /\ wire' = << >> /\ UNCHANGED <<handled, cut>>
    BY <1>3 DEF ReadCredentials
  <2>2. UNCHANGED written /\ stage = "credentials"
    BY <1>3 DEF ReadCredentials
  <2>3. CASE Read(chunk) /\ stage' = "reading" /\ UNCHANGED open
    BY <2>2, <2>3, ReadStep
  <2>4. CASE stage' = "over" /\ open' = FALSE /\ wire' = << >> /\ UNCHANGED <<handled, cut>>
    BY <2>2, <2>4, OverStep
  <2> QED
    BY <2>1, <2>3, <2>4
<1>4. CASE ReadMessage
  <2>1. PICK chunk \in Chunks : Read(chunk)
    BY <1>4 DEF ReadMessage
  <2>2. UNCHANGED <<written, open>> /\ stage = "reading" /\ stage' = "reading"
    BY <1>4 DEF ReadMessage
  <2> QED
    BY <2>1, <2>2, ReadStep
<1>5. CASE ReadError
  <2>1. open \in BOOLEAN
    BY DEF RequestInv, TypeOK
  <2>2. wire' = << >> /\ stage' = "over" /\ open' = FALSE /\ UNCHANGED <<written, handled, cut>>
    BY <1>5, <2>1 DEF ReadError
  <2> QED
    BY <2>2, OverStep
<1>6. CASE UNCHANGED vars
  BY <1>6
  DEF vars, RequestInv, TypeOK, WireInOrder, HandledBeforeWire, WholeInOrder,
      NothingLostUnlessCut
<1> QED
  BY <1>1, <1>2, <1>3, <1>4, <1>5, <1>6 DEF Next, Idle

(* The invariant holds in every reachable state. *)
THEOREM RequestInvariance == Spec => []RequestInv
  BY RequestInit, RequestStep, PTL DEF Spec

(* The whole messages the server handles are some of those written, in     *)
(* order, none twice, however the stream is cut into reads.                *)
THEOREM RequestsInOrder == Spec => []WholeInOrder
<1>1. RequestInv => WholeInOrder
  BY DEF RequestInv
<1> QED
  BY <1>1, RequestInvariance, PTL

(* As long as every read returned exactly one write, nothing is lost. *)
THEOREM RequestsComplete == Spec => []NothingLostUnlessCut
<1>1. RequestInv => NothingLostUnlessCut
  BY DEF RequestInv
<1> QED
  BY <1>1, RequestInvariance, PTL
=============================================================================
