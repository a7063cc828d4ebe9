-------------------------- MODULE GifDecoderProofs --------------------------
(***************************************************************************)
(* Proofs about the GIF decoder's loops, for files of any length and any   *)
(* delays below four seconds: types, the fate of a picture that cannot be  *)
(* decoded, Euclid's algorithm and the fold around it, and the frames.     *)
(***************************************************************************)
EXTENDS GifDecoder, SequenceTheorems, TLAPS

----------------------------------------------------------------------------
(* Division.                                                                *)

\* Quotient and rest.
LEMMA QuotientAndRest ==
    ASSUME NEW n \in Nat, NEW d \in Nat \ {0}
    PROVE  /\ n = d * (n \div d) + (n % d)
           /\ n % d \in 0..d - 1 /\ n \div d \in Nat
OBVIOUS

\* A multiple is divided.
LEMMA DividesMultiple ==
    ASSUME NEW d \in Nat \ {0}, NEW q \in Nat, NEW n \in Nat, n = d * q
    PROVE  Divides(d, n)
BY DEF Divides

\* The quotient of a divisor is exact.
LEMMA ExactQuotient ==
    ASSUME NEW n \in Nat, NEW d \in Nat \ {0}, Divides(d, n)
    PROVE  (n \div d) * d = n /\ n \div d \in Nat
BY DEF Divides

\* One round of Euclid's loop keeps the common divisors of the pair.
LEMMA EuclidStep ==
    ASSUME NEW d \in Nat \ {0}, NEW m \in Nat, NEW n \in Nat \ {0}
    PROVE  Divides(d, m) /\ Divides(d, n) <=> Divides(d, n) /\ Divides(d, m % n)
<1> DEFINE q == m \div n
           r == m % n
<1>1. m = n * q + r /\ q \in Nat /\ r \in Nat
  BY QuotientAndRest
<1> HIDE DEF q, r
<1>2. ASSUME Divides(d, m), Divides(d, n)
      PROVE  Divides(d, r)
  <2>1. PICK x \in Nat : m = d * x
    BY <1>2, ExactQuotient
  <2>2. PICK y \in Nat : n = d * y
    BY <1>2, ExactQuotient
  <2>3. r = d * (x - y * q) /\ x - y * q \in Int
    <3>1. n * q = d * (y * q) /\ y * q \in Nat
      BY <1>1, <2>2
    <3> DEFINE z == y * q
    <3> HIDE DEF z
    <3>2. d * x = d * z + r /\ z \in Nat
      BY <1>1, <2>1, <3>1 DEF z
    <3> QED
      BY <1>1, <3>2 DEF z
  <2>4. x - y * q \in Nat
    <3> DEFINE w == x - y * q
    <3> HIDE DEF w
    <3>1. r = d * w /\ w \in Int
      BY <2>3 DEF w
    <3>2. w >= 0
      BY <1>1, <3>1
    <3> QED
      BY <3>1, <3>2 DEF w
  <2> QED
    BY <1>1, <2>3, <2>4, DividesMultiple
<1>3. ASSUME Divides(d, n), Divides(d, r)
      PROVE  Divides(d, m)
  <2>1. PICK y \in Nat : n = d * y
    BY <1>3, ExactQuotient
  <2>2. PICK z \in Nat : r = d * z
    <3>1. r \in Nat /\ Divides(d, r)
      BY <1>1, <1>3
    <3>2. (r \div d) * d = r /\ r \div d \in Nat
      BY <3>1, ExactQuotient
    <3> QED
      BY <3>1, <3>2
  <2>3. m = d * (y * q + z) /\ y * q + z \in Nat
    <3>1. n * q = d * (y * q) /\ y * q \in Nat
      BY <1>1, <2>1
    <3> QED
      BY <1>1, <2>2, <3>1
  <2> QED
    BY <2>3, DividesMultiple
<1> QED
  BY <1>2, <1>3 DEF r

\* A divisor of a divisor divides.
LEMMA DividesThrough ==
    ASSUME NEW d \in Nat \ {0}, NEW m \in Nat, NEW n \in Nat \ {0}, Divides(n, m), Divides(d, n)
    PROVE  Divides(d, m)
<1>1. m % n = 0
  BY DEF Divides
<1>2. Divides(d, m % n)
  BY <1>1 DEF Divides
<1> QED
  BY <1>2, EuclidStep

\* A delay is a positive number of milliseconds.
LEMMA DelayType ==
    ASSUME NEW p \in Picture
    PROVE  DelayForImage(p) \in Nat \ {0}
<1> DEFINE shown == IF p.unclamped = 0 THEN p.clamped ELSE p.unclamped
           least == IF shown < 10 THEN 10 ELSE shown
<1>1. shown \in 0..399
  BY GifAssumption DEF Picture
<1>2. least \in 10..399
  BY <1>1
<1>3. DelayForImage(p) = Milliseconds(least)
  BY DEF DelayForImage
<1> HIDE DEF least
<1> QED
  BY <1>2, <1>3 DEF Milliseconds

----------------------------------------------------------------------------
(* Type correctness.                                                        *)

\* The delays read so far, and where the loops are in them.
Filled ==
    /\ Len(delays) = IF pc = "fill" THEN i - 1 ELSE Len(file)
    /\ \A k \in DOMAIN delays : delays[k] = DelayForImage(file[k])
    /\ pc = "pair" => i <= Len(delays)

TypeInv == TypeOK /\ Filled

\* The types hold when a file is opened.
LEMMA TypeInit == Init => TypeInv
<1> SUFFICES ASSUME Init PROVE TypeInv
  OBVIOUS
<1>1. file \in Seq(Picture)
  BY GifAssumption DEF Init, Files
<1>2. Len(file) \in Nat
  BY <1>1, LenProperties
<1> QED
  BY <1>1, <1>2 DEF Init, TypeInv, TypeOK, Filled

\* Each iteration keeps them.
LEMMA TypeStep ==
    ASSUME TypeInv, [Next]_vars
    PROVE  TypeInv'
<1> USE DEF TypeInv, TypeOK, Filled
<1>0. Len(file) \in Nat /\ Len(delays) \in Nat /\ Len(images) \in Nat
  BY LenProperties
<1>1. CASE Fill
  <2>1. i \in 1..Len(file) /\ file[i] \in Picture
    BY <1>0, <1>1, ElementOfSeq DEF Fill
  <2>2. DelayForImage(file[i]) \in Nat \ {0}
    BY <2>1, DelayType
  <2>3. /\ delays' \in Seq(Nat \ {0}) /\ Len(delays') = Len(delays) + 1
        /\ \A k \in DOMAIN delays' : delays'[k] = IF k = Len(delays) + 1 THEN DelayForImage(file[i])
                                                  ELSE delays[k]
        /\ DOMAIN delays' = 1..Len(delays) + 1
    BY <1>1, <2>2 DEF Fill
  <2>4. images' \in Seq(1..Len(file))
    <3>1. CASE file[i].decodes
      BY <1>1, <2>1, <3>1 DEF Fill
    <3>2. CASE ~file[i].decodes
      BY <1>1, <2>1, <3>2 DEF Fill
    <3> QED
      BY <3>1, <3>2
  <2>5. Filled'
    BY <1>0, <1>1, <2>3 DEF Fill
  <2> QED
    BY <1>0, <1>1, <2>1, <2>3, <2>4, <2>5 DEF Fill
<1>2. CASE StartFold
  <2>1. gcd' \in Nat \ {0}
    BY <1>0, <1>2, ElementOfSeq DEF StartFold
  <2> QED
    BY <1>0, <1>2, <2>1 DEF StartFold
<1>3. CASE Fold
  <2>1. i \in 1..Len(delays) /\ delays[i] \in Nat \ {0}
    BY <1>0, <1>3, ElementOfSeq DEF Fold
  <2> QED
    BY <1>0, <1>3, <2>1 DEF Fold
<1>4. CASE Pair
  <2> DEFINE r == a % b
  <2>1. r \in Nat
    BY QuotientAndRest
  <2>2. /\ pc = "pair"
        /\ IF r = 0
           THEN gcd' = b /\ i' = i + 1 /\ pc' = "fold" /\ UNCHANGED <<a, b>>
           ELSE a' = b /\ b' = r /\ UNCHANGED <<gcd, i, pc>>
        /\ UNCHANGED <<file, images, delays, frames>>
    BY <1>4 DEF Pair
  <2> HIDE DEF r
  <2>3. CASE r = 0
    BY <1>0, <2>2, <2>3
  <2>4. CASE r # 0
    BY <1>0, <2>1, <2>2, <2>4
  <2> QED
    BY <2>3, <2>4
<1>5. CASE StartExpand
  BY <1>0, <1>5 DEF StartExpand
<1>6. CASE Expand
  <2>1. /\ i \in 1..Len(file) /\ i \in 1..Len(images) /\ images[i] \in 1..Len(file)
        /\ i \in 1..Len(delays) /\ delays[i] \in Nat
    BY <1>0, <1>6, ElementOfSeq DEF Expand
  <2>2. delays[i] \div gcd \in Nat
    BY <2>1, QuotientAndRest
  <2>3. frames' \in Seq([picture : 1..Len(file), times : Nat])
    BY <1>6, <2>1, <2>2 DEF Expand
  <2> QED
    BY <1>0, <1>6, <2>1, <2>3 DEF Expand
<1>7. CASE Trap
  BY <1>0, <1>7 DEF Trap
<1>8. CASE Finish
  BY <1>0, <1>8 DEF Finish
<1>9. CASE UNCHANGED vars
  BY <1>9 DEF vars
<1> QED
  BY <1>1, <1>2, <1>3, <1>4, <1>5, <1>6, <1>7, <1>8, <1>9 DEF Next

\* The inductive invariant of the types.
LEMMA TypeInvariant == Spec => []TypeInv
BY TypeInit, TypeStep, PTL DEF Spec

\* Every reachable state of the decoder is well typed: all delays and the
\* divisor are positive, so that no modulo or division traps, and no index
\* leaves its array.
THEOREM DecoderTypeCorrect == Spec => []TypeOK
BY TypeInvariant, PTL DEF TypeInv

----------------------------------------------------------------------------
(* Pictures that cannot be decoded.                                         *)

\* Images and delays are of the same length just when no picture was left
\* out, and then each image is at its own place.
Decoded ==
    LET n == Len(delays) IN
    /\ Len(images) <= n
    /\ Len(images) = n <=> \A k \in 1..n : file[k].decodes
    /\ Len(images) = n => \A k \in 1..n : images[k] = k

\* The expansion is as far as there are images.
Reached ==
    /\ pc \in {"expand", "done"} => i - 1 <= Len(images)
    /\ pc = "done" => i = Len(file) + 1
    /\ pc = "trapped" => Len(images) < Len(file)

\* Each iteration keeps both.
LEMMA DecodedStep ==
    ASSUME TypeInv, Decoded, Reached, [Next]_vars
    PROVE  Decoded' /\ Reached'
<1> USE DEF TypeInv, TypeOK, Filled
<1>0. Len(file) \in Nat /\ Len(delays) \in Nat /\ Len(images) \in Nat
  BY LenProperties
<1>1. CASE Fill
  <2>1. Len(delays') = i /\ Len(delays) = i - 1 /\ i \in Nat
    BY <1>0, <1>1 DEF Fill
  <2>2. CASE file[i].decodes
    <3>1. /\ Len(images') = Len(images) + 1
          /\ \A k \in 1..Len(images) : images'[k] = images[k]
          /\ images'[Len(images) + 1] = i
      BY <1>1, <2>2 DEF Fill
    <3> QED
      BY <1>0, <1>1, <2>1, <2>2, <3>1 DEF Fill, Decoded, Reached
  <2>3. CASE ~file[i].decodes
    BY <1>0, <1>1, <2>1, <2>3 DEF Fill, Decoded, Reached
  <2> QED
    BY <2>2, <2>3
<1>2. CASE StartFold
  BY <1>0, <1>2 DEF StartFold, Decoded, Reached
<1>3. CASE Fold
  BY <1>0, <1>3 DEF Fold, Decoded, Reached
<1>4. CASE Pair
  BY <1>0, <1>4 DEF Pair, Decoded, Reached
<1>5. CASE StartExpand
  BY <1>0, <1>5 DEF StartExpand, Decoded, Reached
<1>6. CASE Expand
  BY <1>0, <1>6 DEF Expand, Decoded, Reached
<1>7. CASE Trap
  BY <1>0, <1>7 DEF Trap, Decoded, Reached
<1>8. CASE Finish
  BY <1>0, <1>8 DEF Finish, Decoded, Reached
<1>9. CASE UNCHANGED vars
  BY <1>9 DEF vars, Decoded, Reached
<1> QED
  BY <1>1, <1>2, <1>3, <1>4, <1>5, <1>6, <1>7, <1>8, <1>9 DEF Next

\* So they always hold.
LEMMA DecodedInvariant == Spec => []Decoded /\ []Reached
<1>1. Init => Decoded /\ Reached
  BY DEF Init, Decoded, Reached
<1> QED
  BY <1>1, TypeInvariant, DecodedStep, PTL DEF Spec

\* The app stops at a file just when it holds a picture that cannot be decoded.
THEOREM OnlyBadPicturesTrap == Spec => []TrapsOnBadPicture
<1>1. ASSUME TypeInv, Decoded, Reached
      PROVE  TrapsOnBadPicture
  <2>1. Len(file) \in Nat /\ Len(images) \in Nat /\ DOMAIN file = 1..Len(file)
    BY <1>1, LenProperties DEF TypeInv, TypeOK
  <2> QED
    BY <1>1, <2>1 DEF TypeInv, Filled, Decoded, Reached, TrapsOnBadPicture
<1> QED
  BY <1>1, TypeInvariant, DecodedInvariant, PTL

----------------------------------------------------------------------------
(* The divisor.                                                             *)

\* The first delay and those before place n, the ones the fold has looked at.
Looked(n) == {k \in DOMAIN delays : k = 1 \/ k < n}

\* Euclid's loop and the fold around it lose no common divisor and gain none.
CommonDivisorsKept ==
    /\ pc = "fold" /\ delays # <<>> =>
           \A d \in Nat \ {0} :
               Divides(d, gcd) <=> \A k \in Looked(i) : Divides(d, delays[k])
    /\ pc = "pair" =>
           \A d \in Nat \ {0} :
               Divides(d, a) /\ Divides(d, b) <=> \A k \in Looked(i + 1) : Divides(d, delays[k])
    /\ pc \in {"expand", "done"} /\ delays # <<>> =>
           \A d \in Nat \ {0} :
               Divides(d, gcd) <=> \A k \in DOMAIN delays : Divides(d, delays[k])

\* Each iteration keeps that.
LEMMA DivisorStep ==
    ASSUME TypeInv, CommonDivisorsKept, [Next]_vars
    PROVE  CommonDivisorsKept'
<1> USE DEF TypeInv, TypeOK, Filled
<1>0. /\ Len(file) \in Nat /\ Len(delays) \in Nat /\ DOMAIN delays = 1..Len(delays)
      /\ \A k \in DOMAIN delays : delays[k] \in Nat \ {0}
  BY LenProperties, ElementOfSeq
<1>1. CASE Fill
  BY <1>1 DEF Fill, CommonDivisorsKept
<1>2. CASE StartFold
  <2>1. pc' = "fold" /\ delays' = delays
    BY <1>2 DEF StartFold
  <2>2. CASE delays = <<>>
    BY <2>1, <2>2 DEF CommonDivisorsKept
  <2>3. CASE delays # <<>>
    <3>1. gcd' = delays[1] /\ i' = 1
      BY <1>2, <2>3 DEF StartFold
    <3>2. Looked(i)' = {1}
      BY <1>0, <2>1, <2>3, <3>1 DEF Looked
    <3> QED
      BY <2>1, <3>1, <3>2 DEF CommonDivisorsKept
  <2> QED
    BY <2>2, <2>3
<1>3. CASE Fold
  <2>1. /\ pc = "fold" /\ pc' = "pair" /\ delays' = delays /\ i' = i /\ i \in DOMAIN delays
        /\ \/ a' = gcd /\ b' = delays[i]
           \/ a' = delays[i] /\ b' = gcd
    BY <1>0, <1>3 DEF Fold
  <2>2. Looked(i + 1)' = Looked(i) \cup {i}
    BY <1>0, <2>1 DEF Looked
  <2>3. \A d \in Nat \ {0} : Divides(d, gcd) <=> \A k \in Looked(i) : Divides(d, delays[k])
    BY <1>0, <2>1 DEF CommonDivisorsKept
  <2>4. \A d \in Nat \ {0} :
            (Divides(d, a) /\ Divides(d, b))' <=> Divides(d, gcd) /\ Divides(d, delays[i])
    BY <2>1 DEF Divides
  <2>5. \A d \in Nat \ {0} :
            (Divides(d, a) /\ Divides(d, b))'
                <=> \A k \in Looked(i) \cup {i} : Divides(d, delays[k])
    BY <2>3, <2>4
  <2> QED
    BY <2>1, <2>2, <2>5 DEF CommonDivisorsKept, Divides
<1>4. CASE Pair
  <2>1. /\ pc = "pair" /\ delays' = delays /\ i \in DOMAIN delays
    BY <1>0, <1>4 DEF Pair
  <2>2. \A d \in Nat \ {0} : Divides(d, a) /\ Divides(d, b)
            <=> \A k \in Looked(i + 1) : Divides(d, delays[k])
    BY <2>1 DEF CommonDivisorsKept
  <2>3. CASE a % b = 0
    <3>1. gcd' = b /\ i' = i + 1 /\ pc' = "fold" /\ Looked(i)' = Looked(i + 1)
      BY <1>4, <2>1, <2>3 DEF Pair, Looked
    <3>2. Divides(b, a)
      BY <2>3 DEF Divides
    <3>3. \A d \in Nat \ {0} : Divides(d, b) => Divides(d, a)
      BY <3>2, DividesThrough
    <3>4. \A d \in Nat \ {0} : Divides(d, b) <=> \A k \in Looked(i + 1) : Divides(d, delays[k])
      BY <2>2, <3>3
    <3> QED
      BY <2>1, <3>1, <3>4 DEF CommonDivisorsKept, Divides
  <2>4. CASE a % b # 0
    <3>1. a' = b /\ b' = a % b /\ pc' = "pair" /\ i' = i
      BY <1>4, <2>1, <2>4 DEF Pair
    <3>2. \A d \in Nat \ {0} :
              Divides(d, b) /\ Divides(d, a % b)
                  <=> \A k \in Looked(i + 1) : Divides(d, delays[k])
      BY <2>2, EuclidStep
    <3>3. Looked(i + 1)' = Looked(i + 1)
      BY <2>1, <3>1 DEF Looked
    <3> QED
      BY <2>1, <3>1, <3>2, <3>3 DEF CommonDivisorsKept, Divides
  <2> QED
    BY <2>3, <2>4
<1>5. CASE StartExpand
  <2>1. pc = "fold" /\ pc' = "expand" /\ delays' = delays /\ gcd' = gcd /\ i > Len(delays)
    BY <1>5 DEF StartExpand
  <2>2. Looked(i) = DOMAIN delays
    BY <1>0, <2>1 DEF Looked
  <2> QED
    BY <2>1, <2>2 DEF CommonDivisorsKept, Divides
<1>6. CASE Expand
  BY <1>6 DEF Expand, CommonDivisorsKept, Divides
<1>7. CASE Trap
  BY <1>7 DEF Trap, CommonDivisorsKept
<1>8. CASE Finish
  BY <1>8 DEF Finish, CommonDivisorsKept, Divides
<1>9. CASE UNCHANGED vars
  BY <1>9 DEF vars, CommonDivisorsKept, Divides, Looked
<1> QED
  BY <1>1, <1>2, <1>3, <1>4, <1>5, <1>6, <1>7, <1>8, <1>9 DEF Next

\* So it always holds.
LEMMA DivisorInvariant == Spec => []CommonDivisorsKept
<1>1. Init => CommonDivisorsKept
  BY DEF Init, CommonDivisorsKept
<1> QED
  BY <1>1, TypeInvariant, DivisorStep, PTL DEF Spec

\* After the fold the divisor is one of all delays.
LEMMA DivisorOfAll ==
    ASSUME TypeInv, CommonDivisorsKept, pc \in {"expand", "done"}
    PROVE  \A k \in DOMAIN delays : Divides(gcd, delays[k])
<1> SUFFICES ASSUME NEW k \in DOMAIN delays
             PROVE  Divides(gcd, delays[k])
  OBVIOUS
<1>1. delays # <<>> /\ gcd \in Nat \ {0}
  BY DEF TypeInv, TypeOK
<1>2. Divides(gcd, gcd)
  BY <1>1, DividesMultiple
<1> QED
  BY <1>1, <1>2 DEF CommonDivisorsKept

\* The loops end with the greatest common divisor of the delays.
THEOREM DivisorIsGreatest == Spec => []GcdIsGreatest
<1>1. ASSUME TypeInv, CommonDivisorsKept, pc = "expand", delays # <<>>
      PROVE  /\ \A k \in DOMAIN delays : Divides(gcd, delays[k])
             /\ \A d \in gcd + 1..delays[1] : \E k \in DOMAIN delays : ~Divides(d, delays[k])
  <2>1. gcd \in Nat \ {0}
    BY <1>1 DEF TypeInv, TypeOK
  <2>2. delays[1] \in Nat
    BY <1>1, LenProperties, ElementOfSeq DEF TypeInv, TypeOK
  <2>3. ASSUME NEW d \in gcd + 1..delays[1]
        PROVE  ~Divides(d, gcd)
    <3>1. gcd % d = gcd
      BY <2>1, <2>2
    <3> QED
      BY <2>1, <3>1 DEF Divides
  <2> QED
    BY <1>1, <2>1, <2>2, <2>3, DivisorOfAll DEF CommonDivisorsKept
<1> QED
  BY <1>1, TypeInvariant, DivisorInvariant, PTL DEF GcdIsGreatest

----------------------------------------------------------------------------
(* The frames.                                                              *)

\* The frames so far are those of the pictures before i.
Expanded ==
    pc \in {"expand", "done"} =>
        /\ Len(frames) = i - 1
        /\ \A k \in 1..i - 1 :
               frames[k] = [picture |-> images[k], times |-> delays[k] \div gcd]

\* Nothing is put in the frames before the expansion.
NoFramesYet == pc \in {"fill", "fold", "pair"} => frames = <<>>

\* Each iteration keeps both.
LEMMA ExpandedStep ==
    ASSUME TypeInv, Expanded, NoFramesYet, [Next]_vars
    PROVE  Expanded' /\ NoFramesYet'
<1> USE DEF TypeInv, TypeOK
<1>1. CASE Fill
  BY <1>1 DEF Fill, Expanded, NoFramesYet
<1>2. CASE StartFold
  BY <1>2 DEF StartFold, Expanded, NoFramesYet
<1>3. CASE Fold
  BY <1>3 DEF Fold, Expanded, NoFramesYet
<1>4. CASE Pair
  <2>1. pc = "pair" /\ pc' \in {"pair", "fold"} /\ frames' = frames
    BY <1>4 DEF Pair
  <2> QED
    BY <2>1 DEF Expanded, NoFramesYet
<1>5. CASE StartExpand
  BY <1>5 DEF StartExpand, Expanded, NoFramesYet
<1>6. CASE Expand
  <2> DEFINE frame == [picture |-> images[i], times |-> delays[i] \div gcd]
  <2>1. /\ pc = "expand" /\ pc' = "expand" /\ i' = i + 1 /\ i \in Nat
        /\ UNCHANGED <<images, delays, gcd>>
        /\ frames' = Append(frames, frame)
    BY <1>6, LenProperties DEF Expand
  <2>2. Len(frames) = i - 1 /\ \A k \in 1..i - 1 :
            frames[k] = [picture |-> images[k], times |-> delays[k] \div gcd]
    BY <2>1 DEF Expanded
  <2>3. /\ Len(frames') = i /\ frames'[i] = frame
        /\ \A k \in 1..i - 1 : frames'[k] = frames[k]
    <3> HIDE DEF frame
    <3> QED
      BY <2>1, <2>2
  <2>4. ASSUME NEW k \in 1..i
        PROVE  frames'[k] = [picture |-> images[k], times |-> delays[k] \div gcd]
    <3>1. CASE k = i
      BY <2>3, <3>1
    <3>2. CASE k # i
      <4>1. k \in 1..i - 1
        BY <2>1, <3>2
      <4> QED
        BY <2>2, <2>3, <4>1
    <3> QED
      BY <3>1, <3>2
  <2>5. i' - 1 = i
    BY <2>1
  <2> QED
    BY <2>1, <2>3, <2>4, <2>5 DEF Expanded, NoFramesYet
<1>7. CASE Trap
  BY <1>7 DEF Trap, Expanded, NoFramesYet
<1>8. CASE Finish
  BY <1>8 DEF Finish, Expanded, NoFramesYet
<1>9. CASE UNCHANGED vars
  BY <1>9 DEF vars, Expanded, NoFramesYet
<1> QED
  BY <1>1, <1>2, <1>3, <1>4, <1>5, <1>6, <1>7, <1>8, <1>9 DEF Next

\* Each picture of a file that is decoded to its end is shown for exactly its
\* delay, in its place.
THEOREM DelaysKept == Spec => []EachShownForItsDelay
<1>1. ASSUME TypeInv, Decoded, Reached, CommonDivisorsKept, Expanded, pc = "done"
      PROVE  /\ Len(frames) = Len(file)
             /\ \A k \in DOMAIN file :
                    /\ frames[k].picture = k
                    /\ frames[k].times * gcd = DelayForImage(file[k])
  <2>1. /\ Len(file) \in Nat /\ Len(images) \in Nat /\ DOMAIN file = 1..Len(file)
        /\ i = Len(file) + 1 /\ Len(delays) = Len(file) /\ DOMAIN delays = 1..Len(file)
    BY <1>1, LenProperties DEF TypeInv, TypeOK, Filled, Reached
  <2>2. \A k \in DOMAIN file : images[k] = k
    BY <1>1, <2>1 DEF Decoded, Reached
  <2>3. ASSUME NEW k \in DOMAIN file
        PROVE  (delays[k] \div gcd) * gcd = DelayForImage(file[k])
    <3>1. delays[k] \in Nat /\ gcd \in Nat \ {0} /\ delays[k] = DelayForImage(file[k])
      BY <1>1, <2>1, ElementOfSeq DEF TypeInv, TypeOK, Filled
    <3>2. Divides(gcd, delays[k])
      BY <1>1, <2>1, DivisorOfAll
    <3> QED
      BY <3>1, <3>2, ExactQuotient
  <2>4. /\ Len(frames) = Len(file)
        /\ \A k \in DOMAIN file :
               frames[k] = [picture |-> images[k], times |-> delays[k] \div gcd]
    BY <1>1, <2>1 DEF Expanded
  <2>5. ASSUME NEW k \in DOMAIN file
        PROVE  frames[k].picture = k /\ frames[k].times * gcd = DelayForImage(file[k])
    <3> DEFINE times == delays[k] \div gcd
    <3>0. frames[k] = [picture |-> images[k], times |-> times]
      BY <2>4
    <3> HIDE DEF times
    <3>1. frames[k].picture = images[k] /\ frames[k].times = times
      BY <3>0
    <3>2. images[k] = k
      BY <2>2
    <3>3. (delays[k] \div gcd) * gcd = DelayForImage(file[k])
      BY <2>3
    <3> QED
      BY <3>1, <3>2, <3>3 DEF times
  <2> QED
    BY <2>4, <2>5
<1>2. Init => Expanded /\ NoFramesYet
  BY DEF Init, Expanded, NoFramesYet
<1>3. Spec => []Expanded
  BY <1>2, TypeInvariant, ExpandedStep, PTL DEF Spec
<1>4. TypeInv /\ Decoded /\ Reached /\ CommonDivisorsKept /\ Expanded => EachShownForItsDelay
  BY <1>1 DEF EachShownForItsDelay
<1> QED
  BY <1>3, <1>4, TypeInvariant, DecodedInvariant, DivisorInvariant, PTL
=============================================================================
