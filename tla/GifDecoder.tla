---------------------------- MODULE GifDecoder -----------------------------
(***************************************************************************)
(* From a GIF file to the frames of an animated image.  An animated image  *)
(* shows all its frames equally long, so a picture with a longer delay     *)
(* becomes several equal frames: its delay over the greatest common        *)
(* divisor of all delays.  The loops of animatedImageWithSource,           *)
(* gcdForArray and gcdForPair, one iteration a step.                       *)
(***************************************************************************)
EXTENDS Naturals, Sequences

CONSTANTS
    Centiseconds,  \* delays a file may hold
    MaxPictures    \* bound: pictures in a file

ASSUME GifAssumption ==
    /\ Centiseconds \subseteq 0..399
    /\ MaxPictures \in Nat

VARIABLES
    file,    \* the pictures of the file
    i,       \* place in the file, in the delays, or in the frames
    images,  \* pictures decoded, by their place in the file
    delays,  \* milliseconds
    gcd,     \* of the delays before i
    a, b,    \* the pair of gcdForPair
    frames,  \* runs of equal frames: a picture and how many times
    pc

vars == <<file, i, images, delays, gcd, a, b, frames, pc>>

Picture == [unclamped : Centiseconds, clamped : Centiseconds, decodes : BOOLEAN]

Files == UNION {[1..n -> Picture] : n \in 0..MaxPictures}

\* Int(seconds * 1000): of the delays below four seconds, two are cut off
\* because their product is a little less than a whole number.
Milliseconds(cs) == IF cs \in {201, 203} THEN 10 * cs - 1 ELSE 10 * cs

\* A tenth of a second at least; the second field counts if the first is 0.
DelayForImage(p) ==
    LET delay == IF p.unclamped = 0 THEN p.clamped ELSE p.unclamped
    IN  Milliseconds(IF delay < 10 THEN 10 ELSE delay)

TypeOK ==
    /\ file \in Seq(Picture)
    /\ i \in 1..Len(file) + 1
    /\ images \in Seq(1..Len(file))
    /\ delays \in Seq(Nat \ {0})
    /\ gcd \in Nat \ {0}
    /\ a \in Nat \ {0} /\ b \in Nat \ {0}
    /\ frames \in Seq([picture : 1..Len(file), times : Nat])
    /\ pc \in {"fill", "fold", "pair", "expand", "done", "trapped"}

Init ==
    /\ file \in Files
    /\ i = 1
    /\ images = <<>> /\ delays = <<>> /\ frames = <<>>
    /\ gcd = 1 /\ a = 1 /\ b = 1
    /\ pc = "fill"

\* A picture that cannot be decoded is left out of the images, but its delay
\* is not left out of the delays.
Fill ==
    /\ pc = "fill" /\ i <= Len(file)
    /\ images' = IF file[i].decodes THEN Append(images, i) ELSE images
    /\ delays' = Append(delays, DelayForImage(file[i]))
    /\ i' = i + 1
    /\ UNCHANGED <<file, gcd, a, b, frames, pc>>

StartFold ==
    /\ pc = "fill" /\ i > Len(file)
    /\ gcd' = IF delays = <<>> THEN 1 ELSE delays[1]
    /\ i' = 1
    /\ pc' = "fold"
    /\ UNCHANGED <<file, images, delays, a, b, frames>>

\* Mutant: each delay is paired with the first one.
FoldFirst ==
    /\ pc = "fold" /\ i <= Len(delays)
    /\ a' = IF delays[i] < delays[1] THEN delays[1] ELSE delays[i]
    /\ b' = IF delays[i] < delays[1] THEN delays[i] ELSE delays[1]
    /\ pc' = "pair"
    /\ UNCHANGED <<file, i, images, delays, gcd, frames>>

\* gcdForPair(delays[i], gcd), the larger number first.
Fold ==
    /\ pc = "fold" /\ i <= Len(delays)
    /\ a' = IF delays[i] < gcd THEN gcd ELSE delays[i]
    /\ b' = IF delays[i] < gcd THEN delays[i] ELSE gcd
    /\ pc' = "pair"
    /\ UNCHANGED <<file, i, images, delays, gcd, frames>>

\* Mutant: the larger number is replaced and stays in its place.
PairInPlace ==
    /\ pc = "pair"
    /\ IF a % b = 0
       THEN gcd' = b /\ i' = i + 1 /\ pc' = "fold" /\ UNCHANGED <<a, b>>
       ELSE a' = a % b /\ UNCHANGED <<b, gcd, i, pc>>
    /\ UNCHANGED <<file, images, delays, frames>>

Pair ==
    /\ pc = "pair"
    /\ IF a % b = 0
       THEN gcd' = b /\ i' = i + 1 /\ pc' = "fold" /\ UNCHANGED <<a, b>>
       ELSE a' = b /\ b' = a % b /\ UNCHANGED <<gcd, i, pc>>
    /\ UNCHANGED <<file, images, delays, frames>>

StartExpand ==
    /\ pc = "fold" /\ i > Len(delays)
    /\ i' = 1
    /\ pc' = "expand"
    /\ UNCHANGED <<file, images, delays, gcd, a, b, frames>>

\* Mutant: one frame more for every picture.
ExpandAndOne ==
    /\ pc = "expand" /\ i <= Len(file)
    /\ i <= Len(images)
    /\ frames' = Append(frames, [picture |-> images[i], times |-> delays[i] \div gcd + 1])
    /\ i' = i + 1
    /\ UNCHANGED <<file, images, delays, gcd, a, b, pc>>

Expand ==
    /\ pc = "expand" /\ i <= Len(file)
    /\ i <= Len(images)
    /\ frames' = Append(frames, [picture |-> images[i], times |-> delays[i] \div gcd])
    /\ i' = i + 1
    /\ UNCHANGED <<file, images, delays, gcd, a, b, pc>>

\* Mutant: an image too few is taken for the end of the file.
StopEarly ==
    /\ pc = "expand"
    /\ i > Len(images)
    /\ pc' = "done"
    /\ UNCHANGED <<file, i, images, delays, gcd, a, b, frames>>

\* images[i] beyond its end stops the app.
Trap ==
    /\ pc = "expand" /\ i <= Len(file)
    /\ i > Len(images)
    /\ pc' = "trapped"
    /\ UNCHANGED <<file, i, images, delays, gcd, a, b, frames>>

Finish ==
    /\ pc = "expand" /\ i > Len(file)
    /\ pc' = "done"
    /\ UNCHANGED <<file, i, images, delays, gcd, a, b, frames>>

Next == Fill \/ StartFold \/ Fold \/ Pair \/ StartExpand \/ Expand \/ Trap \/ Finish

Spec == Init /\ [][Next]_vars

\* One thread runs the loops to their end.
FairSpec == Spec /\ WF_vars(Next)

----------------------------------------------------------------------------
(* Properties.                                                              *)

Divides(d, n) == n % d = 0

\* After the fold gcd is a common divisor of all delays, and no number above
\* it is one.
GcdIsGreatest ==
    pc = "expand" /\ delays # <<>> =>
        /\ \A k \in DOMAIN delays : Divides(gcd, delays[k])
        /\ \A d \in gcd + 1..delays[1] : \E k \in DOMAIN delays : ~Divides(d, delays[k])

\* Every picture of the file is shown, in its place, for exactly its delay
\* when a frame lasts gcd milliseconds; no division rounds.
EachShownForItsDelay ==
    pc = "done" =>
        /\ Len(frames) = Len(file)
        /\ \A k \in DOMAIN file :
               /\ frames[k].picture = k
               /\ frames[k].times * gcd = DelayForImage(file[k])

\* A file whose pictures all decode is decoded to its end, and one with a
\* picture that does not ends the app: no picture is ever shown for the
\* delay of another.
TrapsOnBadPicture ==
    /\ pc = "trapped" => \E k \in DOMAIN file : ~file[k].decodes
    /\ pc = "done" => \A k \in DOMAIN file : file[k].decodes

\* The loops end for every file.
Terminates == <>(pc \in {"done", "trapped"})
============================================================================
